---- MODULE Spec2Model ----
\* A model of the RAFS image builder's aligned I/O helpers (rafs/src/lib.rs)
\* and of the overlay tree engine (src/bin/nydus-image/core/tree.rs).
EXTENDS Integers, Sequences, FiniteSets, TLC

VARIABLES
    file,       \* contents of the file behind the RafsIoWriter / RafsIoReader
    cursor,     \* the file's seek position
    io,         \* the last I/O call: its name, arguments, result and pre-state
    ioOps,      \* number of cursor-moving I/O calls made so far
    tree,       \* the overlay tree the builder holds (a Tree value)
    prev,       \* the tree as it was before the last apply call
    last,       \* the last apply call: its arguments and its result
    steps,      \* number of apply calls made so far
    boot,       \* a bootstrap, the chunk dictionary and what from_bootstrap made of them
    cli,        \* one run of `nydus-image create`: arguments, position, outcome
    dmn,        \* one run of nydusd's main: environment, position, events so far
    vq,         \* the vhost-user-fs backend handler, its vrings and the guest driver
    evt         \* the daemon's event channels and the threads calling on_event

ioVars == <<file, cursor, io, ioOps>>
treeVars == <<tree, prev, last, steps>>
vars == <<file, cursor, io, ioOps, tree, prev, last, steps, boot, cli, dmn, vq, evt>>

\* What the calls on one component leave alone.
notIo == <<treeVars, boot, cli, dmn, vq, evt>>
notTree == <<ioVars, boot, cli, dmn, vq, evt>>
notBoot == <<ioVars, treeVars, cli, dmn, vq, evt>>
notCli == <<ioVars, treeVars, boot, dmn, vq, evt>>
notDmn == <<ioVars, treeVars, boot, cli, vq, evt>>
notVq == <<ioVars, treeVars, boot, cli, dmn, evt>>
notEvt == <<ioVars, treeVars, boot, cli, dmn, vq>>

\* ---------------------------------------------------------------------------
\* Bounds of the exploration
\* ---------------------------------------------------------------------------

\* Number of writes and seeks explored from the empty file.
MaxIoOps == 3

\* Number of apply calls explored from a lower tree.
MaxSteps == 2

\* ---------------------------------------------------------------------------
\* rafs/src/lib.rs: RafsIoWrite / RafsIoRead helpers
\* ---------------------------------------------------------------------------

\* const WRITE_PADDING_DATA: [u8; 64]
WRITE_PADDING_LEN == 64

Zeros(n) == [i \in 1..n |-> 0]

WRITE_PADDING_DATA == Zeros(WRITE_PADDING_LEN)

\* Rust's `&` on unsigned integers.
RECURSIVE BitAnd(_, _)
BitAnd(x, y) ==
    IF x = 0 \/ y = 0 THEN 0
    ELSE (IF x % 2 = 1 /\ y % 2 = 1 THEN 1 ELSE 0) + 2 * BitAnd(x \div 2, y \div 2)

Ok(v) == [ok |-> TRUE, val |-> v, err |-> ""]
Err(e) == [ok |-> FALSE, val |-> 0, err |-> e]

\* std::fs::File as Write: the bytes land at the cursor; a cursor beyond the
\* end of the file leaves a hole that reads as zeros.
WriteAt(f, c, data) ==
    LET n == Len(data)
        newLen == IF c + n > Len(f) THEN c + n ELSE Len(f)
    IN [i \in 1..newLen |->
            IF i > c /\ i <= c + n THEN data[i - c]
            ELSE IF i <= Len(f) THEN f[i]
            ELSE 0]

\* RafsIoWrite::validate_alignment with `cur` the result of seek(Current(0)).
validate_alignment_mut_and(cur, size, alignment) ==
    IF alignment # 0
       /\ (BitAnd(size, alignment - 1) # 0 /\ BitAnd(cur, alignment - 1) # 0)
    THEN Err("unaligned data")
    ELSE Ok(size)

validate_alignment(cur, size, alignment) ==
    IF alignment # 0
       /\ (BitAnd(size, alignment - 1) # 0 \/ BitAnd(cur, alignment - 1) # 0)
    THEN Err("unaligned data")
    ELSE Ok(size)

\* The slice write_padding hands to write_all, or the error it returns.
write_padding_mut_limit(size) ==
    IF size >= Len(WRITE_PADDING_DATA)
    THEN Err("invalid padding size")
    ELSE [ok |-> TRUE, val |-> SubSeq(WRITE_PADDING_DATA, 1, size), err |-> ""]

write_padding(size) ==
    IF size > Len(WRITE_PADDING_DATA)
    THEN Err("invalid padding size")
    ELSE [ok |-> TRUE, val |-> SubSeq(WRITE_PADDING_DATA, 1, size), err |-> ""]

\* The relative offset seek_to_next_aligned passes to seek(Current(..)).
seek_to_next_aligned_mut_suffix(last_read_len, alignment) ==
    LET suffix == BitAnd(last_read_len, alignment - 1)
    IN suffix

seek_to_next_aligned(last_read_len, alignment) ==
    LET suffix == BitAnd(last_read_len, alignment - 1)
    IN IF suffix = 0 THEN 0 ELSE alignment - suffix

\* Inputs of the I/O calls.
WriteData == { <<170>>, Zeros(7), <<170, 0, 170>> }
PaddingSizes == {0, 1, 5, 64, 65}
SeekOffsets == {0, 7, 8, 12}
PlusOffsets == {-1, 7}
ValidateSizes == {0, 2, 7, 8, 9, 16}
ValidateAlignments == {0, 1, 2, 6, 8}
ReadLens == {0, 1, 7, 8, 9}
ReadAlignments == {1, 2, 4, 8}

IsPowerOfTwo(a) == a \in {1, 2, 4, 8, 16, 32, 64}

NoIo == [op |-> "none", a1 |-> 0, a2 |-> 0, ret |-> Ok(0),
         preCursor |-> 0, preFile |-> <<>>]

IoCall(op, a1, a2, ret) ==
    [op |-> op, a1 |-> a1, a2 |-> a2, ret |-> ret,
     preCursor |-> cursor, preFile |-> file]

\* Write::write_all on the file.
WriteAll ==
    /\ ioOps < MaxIoOps
    /\ \E data \in WriteData :
        /\ file' = WriteAt(file, cursor, data)
        /\ cursor' = cursor + Len(data)
        /\ io' = IoCall("write_all", Len(data), 0, Ok(0))
    /\ ioOps' = ioOps + 1
    /\ UNCHANGED notIo

WritePadding ==
    /\ ioOps < MaxIoOps
    /\ \E size \in PaddingSizes :
        LET r == write_padding(size)
        IN /\ file' = IF r.ok THEN WriteAt(file, cursor, r.val) ELSE file
           /\ cursor' = IF r.ok THEN cursor + Len(r.val) ELSE cursor
           /\ io' = IoCall("write_padding", size, 0,
                           IF r.ok THEN Ok(0) ELSE Err(r.err))
    /\ ioOps' = ioOps + 1
    /\ UNCHANGED notIo

\* seek_to_end of the writer: seek(SeekFrom::End(0)).
SeekToEnd ==
    /\ ioOps < MaxIoOps
    /\ cursor' = Len(file)
    /\ io' = IoCall("seek_to_end", 0, 0, Ok(Len(file)))
    /\ ioOps' = ioOps + 1
    /\ UNCHANGED <<file, notIo>>

\* seek_to_offset of the writer and of the reader: seek(SeekFrom::Start(offset)).
SeekToOffset ==
    /\ ioOps < MaxIoOps
    /\ \E offset \in SeekOffsets :
        /\ cursor' = offset
        /\ io' = IoCall("seek_to_offset", offset, 0, Ok(offset))
    /\ ioOps' = ioOps + 1
    /\ UNCHANGED <<file, notIo>>

\* seek_plus_offset of the reader: seek(SeekFrom::Current(plus_offset)); the
\* seek fails, leaving the cursor where it was, when it would go before 0.
SeekPlusOffset ==
    /\ ioOps < MaxIoOps
    /\ \E plus_offset \in PlusOffsets :
        IF cursor + plus_offset < 0
        THEN /\ cursor' = cursor
             /\ io' = IoCall("seek_plus_offset", plus_offset, 0, Err("EINVAL"))
        ELSE /\ cursor' = cursor + plus_offset
             /\ io' = IoCall("seek_plus_offset", plus_offset, 0,
                             Ok(cursor + plus_offset))
    /\ ioOps' = ioOps + 1
    /\ UNCHANGED <<file, notIo>>

ValidateAlignment ==
    /\ \E size \in ValidateSizes, alignment \in ValidateAlignments :
        io' = IoCall("validate_alignment", size, alignment,
                     validate_alignment(cursor, size, alignment))
    /\ UNCHANGED <<file, cursor, ioOps, notIo>>

SeekToNextAligned ==
    /\ ioOps < MaxIoOps
    /\ \E last_read_len \in ReadLens, alignment \in ReadAlignments :
        LET offset == seek_to_next_aligned(last_read_len, alignment)
        IN /\ cursor' = cursor + offset
           /\ io' = IoCall("seek_to_next_aligned", last_read_len, alignment,
                           Ok(cursor + offset))
    /\ ioOps' = ioOps + 1
    /\ UNCHANGED <<file, notIo>>


\* ---------------------------------------------------------------------------
\* Node (src/bin/nydus-image/core/node.rs): the accessors Tree::apply and
\* Tree::remove call, after the specification's data model and whiteout
\* conventions.
\* ---------------------------------------------------------------------------

\* File names are byte strings, modelled as sequences of characters.
ROOT == <<"/">>
NameA == <<"a">>
NameB == <<"b">>
OCISPEC_WHITEOUT_PREFIX == <<".", "w", "h", ".">>
OCISPEC_WHITEOUT_OPAQUE == <<".", "w", "h", ".", ".", "w", "h", ".", ".", "o", "p", "q">>

Some(v) == [some |-> TRUE, v |-> v]
None == [some |-> FALSE, v |-> <<>>]

\* Node::target_vec(): the components of the node's absolute path, "/" first.
target_vec(node) == node.target_vec

\* Node::name(): the last component of the path, "/" for the root.
name(node) == node.target_vec[Len(node.target_vec)]

\* Node::is_dir()
is_dir(node) == node.kind = "dir"

StartsWith(s, prefix) ==
    Len(s) >= Len(prefix) /\ SubSeq(s, 1, Len(prefix)) = prefix

\* Node::whiteout_type(spec): OCI whiteouts are regular files named `.wh.<name>`
\* and `.wh..wh..opq`; OverlayFS whiteouts are character devices with rdev 0 and
\* directories carrying the xattr trusted.overlay.opaque = "y".
whiteout_type(node, spec) ==
    IF spec = "Oci"
    THEN IF node.kind = "reg" /\ name(node) = OCISPEC_WHITEOUT_OPAQUE THEN "OciOpaque"
         ELSE IF node.kind = "reg" /\ StartsWith(name(node), OCISPEC_WHITEOUT_PREFIX)
              THEN "OciRemoval"
         ELSE "None"
    ELSE IF node.kind = "chr" /\ node.rdev = 0 THEN "OverlayFsRemoval"
         ELSE IF node.kind = "dir" /\ node.opaque THEN "OverlayFsOpaque"
         ELSE "None"

\* WhiteoutType::is_removal()
is_removal(whiteout_type_) == whiteout_type_ \in {"OciRemoval", "OverlayFsRemoval"}

\* Node::origin_name(type): the name a removal whiteout deletes.
origin_name(node, whiteout_type_) ==
    IF whiteout_type_ = "OciRemoval"
    THEN Some(SubSeq(name(node), Len(OCISPEC_WHITEOUT_PREFIX) + 1, Len(name(node))))
    ELSE IF whiteout_type_ = "OverlayFsRemoval" THEN Some(name(node))
    ELSE None

\* ---------------------------------------------------------------------------
\* src/bin/nydus-image/core/tree.rs
\* ---------------------------------------------------------------------------

\* Tree::new(node)
TreeNew(node) == [node |-> node, children |-> <<>>]

Found(t) == [found |-> TRUE, tree |-> t]
NotFound(t) == [found |-> FALSE, tree |-> t]

\* target.path().parent().and_then(file_name) in Tree::apply: the name of the
\* directory holding the target, None for the root and for the root's children.
parent_name(target) ==
    LET tp == target_vec(target)
    IN IF Len(tp) >= 3 THEN Some(tp[Len(tp) - 1]) ELSE None

RemoveIdx(s, idx) == SubSeq(s, 1, idx - 1) \o SubSeq(s, idx + 1, Len(s))

RECURSIVE apply(_, _, _, _)
RECURSIVE ApplyChildren(_, _, _, _, _)
RECURSIVE remove(_, _, _, _, _)
RECURSIVE RemoveChildren(_, _, _, _, _, _)

\* "Handle Opaques for root path (/)" in Tree::remove.
IsRootOpaque(depth, whiteout_type_, target_paths_len) ==
    /\ depth = 1
    /\ \/ whiteout_type_ = "OciOpaque" /\ target_paths_len = 2
       \/ whiteout_type_ = "OverlayFsOpaque" /\ target_paths_len = 1

\* "Handle Removals" in Tree::remove: the test that selects the child to drop.
IsRemoval_mut_anydepth(depth, target_paths_len, whiteout_type_, origin, child) ==
    /\ is_removal(whiteout_type_)
    /\ origin = Some(name(child.node))

IsRemoval(depth, target_paths_len, whiteout_type_, origin, child) ==
    /\ depth = target_paths_len - 1
    /\ is_removal(whiteout_type_)
    /\ origin = Some(name(child.node))

\* "Handle Opaques" in Tree::remove: which child, if this one, is made opaque.
IsOpaque(depth, target, whiteout_type_, parent, child) ==
    LET target_paths_len == Len(target_vec(target))
    IN IF whiteout_type_ = "OciOpaque" /\ target_paths_len >= 2
          /\ depth = target_paths_len - 2
       THEN parent.some /\ parent.v = name(child.node)
       ELSE /\ whiteout_type_ = "OverlayFsOpaque"
            /\ depth = target_paths_len - 1
            /\ name(target) = name(child.node)

\* The opaque mark: overlay = UpperOpaque and children.clear().
MakeOpaque_mut_nomark(t) ==
    [node |-> t.node, children |-> <<>>]

MakeOpaque(t) ==
    [node |-> [t.node EXCEPT !.overlay = "UpperOpaque"], children |-> <<>>]

\* The loop over self.children in Tree::remove, from index idx on.
RemoveChildren(self, idx, target, whiteout_type_, origin, parent) ==
    LET target_paths_len == Len(target_vec(target))
        depth == Len(target_vec(self.node))
    IN IF idx > Len(self.children) THEN NotFound(self)
       ELSE LET child == self.children[idx]
            IN IF IsRemoval(depth, target_paths_len, whiteout_type_, origin, child)
               THEN Found([self EXCEPT !.children = RemoveIdx(@, idx)])
               ELSE IF IsOpaque(depth, target, whiteout_type_, parent, child)
               THEN Found([self EXCEPT !.children[idx] = MakeOpaque(child)])
               ELSE IF is_dir(child.node)
               THEN LET r == remove(child, target, whiteout_type_, origin, parent)
                        self2 == [self EXCEPT !.children[idx] = r.tree]
                    IN IF r.found THEN Found(self2)
                       ELSE RemoveChildren(self2, idx + 1, target, whiteout_type_,
                                           origin, parent)
               ELSE RemoveChildren(self, idx + 1, target, whiteout_type_,
                                   origin, parent)

\* Tree::remove without the comparison of the node's own name.
remove_mut_nonamecheck(self, target, whiteout_type_, origin, parent) ==
    LET target_paths_len == Len(target_vec(target))
        depth == Len(target_vec(self.node))
    IN IF depth >= target_paths_len
       THEN NotFound(self)
       ELSE IF IsRootOpaque(depth, whiteout_type_, target_paths_len)
       THEN Found(MakeOpaque(self))
       ELSE RemoveChildren(self, 1, target, whiteout_type_, origin, parent)

\* Tree::remove
remove(self, target, whiteout_type_, origin, parent) ==
    LET target_paths == target_vec(target)
        target_paths_len == Len(target_paths)
        node_paths == target_vec(self.node)
        depth == Len(node_paths)
    IN IF depth >= target_paths_len \/ node_paths[depth] # target_paths[depth]
       THEN NotFound(self)
       ELSE IF IsRootOpaque(depth, whiteout_type_, target_paths_len)
       THEN Found(MakeOpaque(self))
       ELSE RemoveChildren(self, 1, target, whiteout_type_, origin, parent)

\* "Modifications: Replace the node" in Tree::apply.
Modification_mut_dropchildren(child, target) ==
    [node |-> [target EXCEPT !.overlay = "UpperModification"],
     children |-> <<>>]

Modification(child, target) ==
    [node |-> [target EXCEPT !.overlay = "UpperModification"],
     children |-> child.children]

\* "Additions: Add new node to children" in Tree::apply.
Addition_mut_front(self, target) ==
    [self EXCEPT !.children =
        <<[node |-> [target EXCEPT !.overlay = "UpperAddition"],
           children |-> <<>>]>> \o @]

Addition_mut_replace(self, target) ==
    [self EXCEPT !.children =
        <<[node |-> [target EXCEPT !.overlay = "UpperAddition"],
           children |-> <<>>]>>]

Addition(self, target) ==
    [self EXCEPT !.children =
        Append(@, [node |-> [target EXCEPT !.overlay = "UpperAddition"],
                   children |-> <<>>])]

\* The condition guarding the addition in Tree::apply.
IsAddition_mut_noparent(self, target) ==
    LET target_paths == target_vec(target)
        depth == Len(target_vec(self.node))
    IN depth <= Len(target_paths) - 1

IsAddition(self, target) ==
    LET target_paths == target_vec(target)
        depth == Len(target_vec(self.node))
    IN depth = Len(target_paths) - 1 /\ target_paths[depth] = name(self.node)

\* The loop of Tree::apply without its "Modifications" branch.
ApplyChildren_mut_nomodification(self, idx, target, handle_whiteout, whiteout_spec) ==
    LET target_paths == target_vec(target)
        target_paths_len == Len(target_paths)
        depth == Len(target_vec(self.node))
    IN IF idx > Len(self.children) THEN NotFound(self)
       ELSE LET child == self.children[idx]
            IN IF target_paths[depth + 1] # name(child.node)
               THEN ApplyChildren(self, idx + 1, target, handle_whiteout, whiteout_spec)
               ELSE IF depth = target_paths_len - 1
               THEN NotFound(self)
               ELSE IF is_dir(child.node)
               THEN LET r == apply(child, target, handle_whiteout, whiteout_spec)
                        self2 == [self EXCEPT !.children[idx] = r.tree]
                    IN IF r.found THEN Found(self2)
                       ELSE ApplyChildren(self2, idx + 1, target, handle_whiteout,
                                          whiteout_spec)
               ELSE ApplyChildren(self, idx + 1, target, handle_whiteout, whiteout_spec)

\* The loop over self.children in Tree::apply, from index idx on.
ApplyChildren(self, idx, target, handle_whiteout, whiteout_spec) ==
    LET target_paths == target_vec(target)
        target_paths_len == Len(target_paths)
        depth == Len(target_vec(self.node))
    IN IF idx > Len(self.children) THEN NotFound(self)
       ELSE LET child == self.children[idx]
            IN IF target_paths[depth + 1] # name(child.node)
               THEN ApplyChildren(self, idx + 1, target, handle_whiteout, whiteout_spec)
               ELSE IF depth = target_paths_len - 1
               THEN Found([self EXCEPT !.children[idx] = Modification(child, target)])
               ELSE IF is_dir(child.node)
               THEN LET r == apply(child, target, handle_whiteout, whiteout_spec)
                        self2 == [self EXCEPT !.children[idx] = r.tree]
                    IN IF r.found THEN Found(self2)
                       ELSE ApplyChildren(self2, idx + 1, target, handle_whiteout,
                                          whiteout_spec)
               ELSE ApplyChildren(self, idx + 1, target, handle_whiteout, whiteout_spec)

\* Tree::apply with a root modification that drops the root's children.
ApplyNode_mut_rootclear(self, target, handle_whiteout, whiteout_spec) ==
    LET target_paths_len == Len(target_vec(target))
        depth == Len(target_vec(self.node))
    IN IF target_vec(target) = <<ROOT>>
       THEN Found([node |-> [target EXCEPT !.overlay = "UpperModification"],
                   children |-> <<>>])
       ELSE LET s == IF depth < target_paths_len
                     THEN ApplyChildren(self, 1, target, handle_whiteout, whiteout_spec)
                     ELSE NotFound(self)
            IN IF s.found THEN s
               ELSE IF IsAddition(s.tree, target) THEN Found(Addition(s.tree, target))
               ELSE NotFound(s.tree)

\* Tree::apply below its whiteout branch: root modification, search, addition.
ApplyNode(self, target, handle_whiteout, whiteout_spec) ==
    LET target_paths_len == Len(target_vec(target))
        depth == Len(target_vec(self.node))
    IN IF target_vec(target) = <<ROOT>>
       THEN Found([node |-> [target EXCEPT !.overlay = "UpperModification"],
                   children |-> self.children])
       ELSE LET s == IF depth < target_paths_len
                     THEN ApplyChildren(self, 1, target, handle_whiteout, whiteout_spec)
                     ELSE NotFound(self)
            IN IF s.found THEN s
               ELSE IF IsAddition(s.tree, target) THEN Found(Addition(s.tree, target))
               ELSE NotFound(s.tree)

\* Tree::apply handing an unmatched whiteout on to the ordinary path.
apply_mut_fallthrough(self, target, handle_whiteout, whiteout_spec) ==
    LET whiteout_type_ == whiteout_type(target, whiteout_spec)
    IN IF handle_whiteout /\ whiteout_type_ # "None"
       THEN LET r == remove(self, target, whiteout_type_,
                            origin_name(target, whiteout_type_), parent_name(target))
            IN IF whiteout_type_ = "OverlayFsOpaque" \/ ~r.found
               THEN ApplyNode(r.tree, target, FALSE, whiteout_spec)
               ELSE r
       ELSE ApplyNode(self, target, handle_whiteout, whiteout_spec)

\* Tree::apply
apply(self, target, handle_whiteout, whiteout_spec) ==
    LET whiteout_type_ == whiteout_type(target, whiteout_spec)
    IN IF handle_whiteout /\ whiteout_type_ # "None"
       THEN LET r == remove(self, target, whiteout_type_,
                            origin_name(target, whiteout_type_), parent_name(target))
            IN IF whiteout_type_ = "OverlayFsOpaque"
               THEN apply(r.tree, target, FALSE, whiteout_spec)
               ELSE r
       ELSE ApplyNode(self, target, handle_whiteout, whiteout_spec)


\* ---------------------------------------------------------------------------
\* Nodes and trees explored
\* ---------------------------------------------------------------------------

MkNode(tv, kind, rdev, opaque, overlay, data) ==
    [target_vec |-> tv, kind |-> kind, rdev |-> rdev, opaque |-> opaque,
     overlay |-> overlay, data |-> data]

\* A node of the lower layer, as Tree::from_bootstrap marks it.
Lower(tv, kind) == MkNode(tv, kind, 0, FALSE, "Lower", "lower")

T(node, children) == [node |-> node, children |-> children]

LowerRoot == Lower(<<ROOT>>, "dir")

\* Lower trees, children sorted by name.
\*   { /a, /b/a }  (scenario S3 with x = a, d = b, y = a)
LowerS3 ==
    T(LowerRoot,
      << T(Lower(<<ROOT, NameA>>, "reg"), <<>>),
         T(Lower(<<ROOT, NameB>>, "dir"),
           << T(Lower(<<ROOT, NameB, NameA>>, "reg"), <<>>) >>) >>)

\*   { /a/a, /a/b/a, /b/a, /b/b }
LowerFull ==
    T(LowerRoot,
      << T(Lower(<<ROOT, NameA>>, "dir"),
           << T(Lower(<<ROOT, NameA, NameA>>, "reg"), <<>>),
              T(Lower(<<ROOT, NameA, NameB>>, "dir"),
                << T(Lower(<<ROOT, NameA, NameB, NameA>>, "reg"), <<>>) >>) >>),
         T(Lower(<<ROOT, NameB>>, "dir"),
           << T(Lower(<<ROOT, NameB, NameA>>, "reg"), <<>>),
              T(Lower(<<ROOT, NameB, NameB>>, "reg"), <<>>) >>) >>)

\*   { /a/b/, /b }
LowerMixed ==
    T(LowerRoot,
      << T(Lower(<<ROOT, NameA>>, "dir"),
           << T(Lower(<<ROOT, NameA, NameB>>, "dir"), <<>>) >>),
         T(Lower(<<ROOT, NameB>>, "reg"), <<>>) >>)

LowerEmpty == T(LowerRoot, <<>>)

LowerTrees == {LowerS3, LowerFull, LowerMixed, LowerEmpty}

WhiteoutSpecs == {"Oci", "Overlayfs"}

\* Upper-layer nodes handed to apply. Plain paths carry a directory, an
\* opaque-marked directory, a regular file or an rdev-0 character device;
\* the OCI whiteout names are regular files inside a directory.
PlainPaths ==
    { <<ROOT, NameA>>, <<ROOT, NameB>>,
      <<ROOT, NameA, NameA>>, <<ROOT, NameA, NameB>>,
      <<ROOT, NameB, NameA>>, <<ROOT, NameB, NameB>> }

WhiteoutDirs ==
    { <<ROOT>>, <<ROOT, NameA>>, <<ROOT, NameB>>, <<ROOT, NameA, NameB>> }

WhiteoutNames ==
    { OCISPEC_WHITEOUT_PREFIX \o NameA, OCISPEC_WHITEOUT_PREFIX \o NameB,
      OCISPEC_WHITEOUT_OPAQUE }

Upper(tv, kind, opaque) == MkNode(tv, kind, 0, opaque, "UpperAddition", "upper")

Targets ==
    { Upper(<<ROOT>>, "dir", o) : o \in BOOLEAN }
    \cup { Upper(p, "dir", o) : p \in PlainPaths, o \in BOOLEAN }
    \cup { Upper(p, k, FALSE) : p \in PlainPaths, k \in {"reg", "chr"} }
    \cup { Upper(Append(d, n), "reg", FALSE) : d \in WhiteoutDirs, n \in WhiteoutNames }

NoApply == [target |-> LowerRoot, handle_whiteout |-> FALSE,
            whiteout_spec |-> "Oci", ret |-> FALSE]

\* ---------------------------------------------------------------------------
\* Specifications
\* ---------------------------------------------------------------------------

IoInit == file = <<>> /\ cursor = 0 /\ io = NoIo /\ ioOps = 0

\* The components a specification does not exercise stay as they start.
BootIdle == boot = [pc |-> "idle"]
CliIdle == cli = [pc |-> "idle"]
DmnIdle == dmn = [pc |-> "idle"]
VqIdle == vq = [pc |-> "idle"]
EvtIdle == evt = [pc |-> "idle"]

TreeInit(lower) == tree = lower /\ prev = lower /\ last = NoApply /\ steps = 0

\* One call of Tree::apply on the tree the builder holds.
Apply ==
    /\ steps < MaxSteps
    /\ \E target \in Targets, handle_whiteout \in BOOLEAN,
          whiteout_spec \in WhiteoutSpecs :
        LET r == apply(tree, target, handle_whiteout, whiteout_spec)
        IN /\ tree' = r.tree
           /\ prev' = tree
           /\ last' = [target |-> target, handle_whiteout |-> handle_whiteout,
                       whiteout_spec |-> whiteout_spec, ret |-> r.found]
    /\ steps' = steps + 1
    /\ UNCHANGED notTree

InitIo == IoInit /\ TreeInit(LowerEmpty) /\ BootIdle /\ CliIdle /\ DmnIdle /\ VqIdle /\ EvtIdle

NextIo ==
    \/ WriteAll
    \/ WritePadding
    \/ SeekToEnd
    \/ SeekToOffset
    \/ SeekPlusOffset
    \/ ValidateAlignment
    \/ SeekToNextAligned

SpecIo == InitIo /\ [][NextIo]_vars

InitTree ==
    /\ IoInit /\ BootIdle /\ CliIdle /\ DmnIdle /\ VqIdle /\ EvtIdle
    /\ \E lower \in LowerTrees : TreeInit(lower)

NextTree == Apply

SpecTree == InitTree /\ [][NextTree]_vars


\* ---------------------------------------------------------------------------
\* Properties of the aligned I/O helpers (checked under SpecIo)
\* ---------------------------------------------------------------------------

\* C1: with the cursor at c and a power-of-two alignment a,
\* validate_alignment(size, a) returns the error "unaligned data" exactly when
\* size % a # 0 or c % a # 0, and Ok(size) otherwise; it moves nothing.
C1_ValidateAlignment ==
    (io.op = "validate_alignment" /\ IsPowerOfTwo(io.a2)) =>
        LET size == io.a1
            a == io.a2
            unaligned == size % a # 0 \/ cursor % a # 0
        IN /\ unaligned => io.ret = Err("unaligned data")
           /\ ~unaligned => io.ret = Ok(size)
           /\ cursor = io.preCursor /\ file = io.preFile

\* The case of the unit test: seven bytes written, one byte of padding, and
\* validate_alignment(8, 8) succeeds at cursor 8.
C1_Witness ==
    /\ io.op = "validate_alignment" /\ io.a1 = 8 /\ io.a2 = 8
    /\ file = Zeros(8) /\ cursor = 8
    /\ io.ret = Ok(8)

\* C2: write_padding(n) with n <= 64 writes exactly n zero bytes at the cursor
\* and advances the cursor by n; with n > 64 it returns "invalid padding size"
\* and leaves cursor and contents unchanged.
C2_WritePadding ==
    io.op = "write_padding" =>
        LET n == io.a1
            c == io.preCursor
            old == io.preFile
        IN IF n <= 64
           THEN /\ io.ret.ok
                /\ cursor = c + n
                /\ Len(file) = (IF c + n > Len(old) THEN c + n ELSE Len(old))
                /\ \A i \in 1..Len(file) :
                      file[i] = IF i > c /\ i <= c + n THEN 0
                                ELSE IF i <= Len(old) THEN old[i]
                                ELSE 0
           ELSE /\ io.ret = Err("invalid padding size")
                /\ cursor = c
                /\ file = old

\* Five bytes of padding written over non-zero data.
C2_Witness ==
    /\ io.op = "write_padding" /\ io.a1 = 5
    /\ io.preFile = <<170, 0, 170>> /\ io.preCursor = 0
    /\ file = Zeros(5) /\ cursor = 5

\* C3: seek_to_next_aligned(last_read_len, alignment) moves the cursor forward
\* by the smallest d >= 0 with (last_read_len + d) % alignment = 0 and returns
\* the new position; a read that started aligned ends aligned.
C3_SeekToNextAligned ==
    io.op = "seek_to_next_aligned" =>
        LET len == io.a1
            a == io.a2
            d == cursor - io.preCursor
        IN /\ d >= 0
           /\ (len + d) % a = 0
           /\ \A e \in 0..(d - 1) : (len + e) % a # 0
           /\ io.ret = Ok(cursor)
           /\ (len % a = 0 => cursor = io.preCursor)
           /\ (io.preCursor >= len /\ (io.preCursor - len) % a = 0 => cursor % a = 0)
           /\ file = io.preFile

\* The case of the unit test: cursor 7, length 7, alignment 8 gives 8.
C3_Witness ==
    /\ io.op = "seek_to_next_aligned" /\ io.a1 = 7 /\ io.a2 = 8
    /\ io.preCursor = 7 /\ cursor = 8 /\ io.ret = Ok(8)


\* ---------------------------------------------------------------------------
\* Properties of the overlay engine (checked under SpecTree)
\* ---------------------------------------------------------------------------

IsPrefix(p, q) == Len(p) <= Len(q) /\ SubSeq(q, 1, Len(p)) = p

Parent(p) == SubSeq(p, 1, Len(p) - 1)

\* The entries of a tree: every node with the path of names leading to it.
RECURSIVE FlatFrom(_, _)
FlatFrom(t, pos) ==
    {[path |-> pos, node |-> t.node]}
    \cup UNION { FlatFrom(t.children[i], Append(pos, name(t.children[i].node))) :
                 i \in DOMAIN t.children }

Flat(t) == FlatFrom(t, <<ROOT>>)

\* Path lookup as a filesystem does it: every component before the last one
\* must be a directory. The set of subtrees found at `path` (empty if none).
RECURSIVE Resolve(_, _, _)
Resolve(t, path, d) ==
    IF d = Len(path) THEN {t}
    ELSE IF ~is_dir(t.node) THEN {}
    ELSE UNION { Resolve(t.children[i], path, d + 1) :
                 i \in { j \in DOMAIN t.children :
                         name(t.children[j].node) = path[d + 1] } }

At(t, path) == Resolve(t, path, 1)

Exists(t, path) == At(t, path) # {}

Called == steps > 0

TargetPath == target_vec(last.target)

\* The shapes of whiteout the last call was asked to handle.
OciRemovalCall ==
    /\ Called /\ last.handle_whiteout /\ last.whiteout_spec = "Oci"
    /\ last.target.kind = "reg"
    /\ StartsWith(name(last.target), OCISPEC_WHITEOUT_PREFIX)
    /\ name(last.target) # OCISPEC_WHITEOUT_OPAQUE

OverlayFsRemovalCall ==
    /\ Called /\ last.handle_whiteout /\ last.whiteout_spec = "Overlayfs"
    /\ last.target.kind = "chr" /\ last.target.rdev = 0

OciOpaqueCall ==
    /\ Called /\ last.handle_whiteout /\ last.whiteout_spec = "Oci"
    /\ last.target.kind = "reg"
    /\ name(last.target) = OCISPEC_WHITEOUT_OPAQUE

OverlayFsOpaqueCall ==
    /\ Called /\ last.handle_whiteout /\ last.whiteout_spec = "Overlayfs"
    /\ last.target.kind = "dir" /\ last.target.opaque

RemovalCall == OciRemovalCall \/ OverlayFsRemovalCall

\* A call that treats its target as an ordinary upper-layer node.
PlainCall ==
    /\ Called
    /\ ~(RemovalCall \/ OciOpaqueCall \/ OverlayFsOpaqueCall)

\* The path a removal whiteout deletes: D/<name>.
RemovedPath ==
    IF OciRemovalCall
    THEN Append(Parent(TargetPath),
                SubSeq(name(last.target), 5, Len(name(last.target))))
    ELSE TargetPath

\* C4: a removal whiteout (handle_whiteout = true) whose D/<name> exists
\* removes exactly that child with its whole subtree, returns true and adds
\* nothing; entries of the same name in other directories stay.
C4_Removal ==
    (RemovalCall /\ Exists(prev, RemovedPath)) =>
        /\ last.ret = TRUE
        /\ Flat(tree) = { e \in Flat(prev) : ~IsPrefix(RemovedPath, e.path) }

\* `.wh.a` in "/" applied to { /a/a, /a/b/a, /b/a, /b/b }: /a goes with its
\* subtree, /b/a stays.
C4_Witness ==
    /\ OciRemovalCall /\ prev = LowerFull
    /\ RemovedPath = <<ROOT, NameA>>
    /\ last.ret = TRUE
    /\ ~Exists(tree, <<ROOT, NameA>>)
    /\ Exists(tree, <<ROOT, NameB, NameA>>)

\* C5: the OCI opaque marker `.wh..wh..opq` in an existing D (root included)
\* marks the node at D UpperOpaque, removes every child of D, returns true
\* and does not add the marker.
C5_OciOpaque ==
    (OciOpaqueCall /\ Exists(prev, Parent(TargetPath))) =>
        LET D == Parent(TargetPath)
            kept == { e \in Flat(prev) : ~(IsPrefix(D, e.path) /\ e.path # D) }
        IN /\ last.ret = TRUE
           /\ \A t \in At(tree, D) :
                 t.node.overlay = "UpperOpaque" /\ t.children = <<>>
           /\ Flat(tree) =
                 { IF e.path = D THEN [e EXCEPT !.node.overlay = "UpperOpaque"]
                   ELSE e : e \in kept }

\* Scenario S3: lower { /a, /b/a }, upper `.wh.a` then `/b/.wh..wh..opq`:
\* no /a, and /b opaque and empty.
C5_Witness ==
    /\ OciOpaqueCall /\ TargetPath = <<ROOT, NameB, OCISPEC_WHITEOUT_OPAQUE>>
    /\ last.ret = TRUE
    /\ tree = T(LowerRoot,
                << T([Lower(<<ROOT, NameB>>, "dir") EXCEPT !.overlay = "UpperOpaque"],
                     <<>>) >>)

\* C6: applying `.wh..wh..opq` for D keeps D's upper-layer children: a child
\* of D that the upper layer put there before the marker was applied is
\* still present afterwards.
C6_OpaqueKeepsUpper ==
    (OciOpaqueCall /\ Exists(prev, Parent(TargetPath))) =>
        \A e \in Flat(prev) :
            ( /\ Parent(e.path) = Parent(TargetPath)
              /\ Len(e.path) > 1
              /\ e.node.overlay \in {"UpperAddition", "UpperModification"} )
            => \E e2 \in Flat(tree) : e2.path = e.path

\* C7: a plain apply whose path P # "/" names an existing node replaces the
\* node's data by the upper node marked UpperModification, keeps the
\* children and the index among the siblings, and returns true.
C7_Modification ==
    (PlainCall /\ TargetPath # <<ROOT>> /\ Exists(prev, TargetPath)) =>
        /\ last.ret = TRUE
        /\ \A p \in At(prev, Parent(TargetPath)) :
           \A q \in At(tree, Parent(TargetPath)) :
           \E i \in DOMAIN p.children :
              /\ name(p.children[i].node) = name(last.target)
              /\ q.children =
                    [p.children EXCEPT ![i] =
                        [node |-> [last.target EXCEPT !.overlay = "UpperModification"],
                         children |-> p.children[i].children]]
        /\ Exists(tree, Parent(TargetPath))

\* The lower directory /a (two children) replaced by an upper regular file.
C7_Witness ==
    /\ PlainCall /\ prev = LowerFull
    /\ last.target = Upper(<<ROOT, NameA>>, "reg", FALSE)
    /\ last.ret = TRUE
    /\ \E t \in At(tree, <<ROOT, NameA>>) :
          /\ t.node.overlay = "UpperModification" /\ t.node.data = "upper"
          /\ Len(t.children) = 2
    /\ name(tree.children[1].node) = NameA

\* C8: a plain apply whose parent directory exists and has no child of the
\* target's name appends the node as the last child, without children and
\* marked UpperAddition, and returns true.
C8_Addition ==
    ( /\ PlainCall /\ TargetPath # <<ROOT>>
      /\ \E p \in At(prev, Parent(TargetPath)) : is_dir(p.node)
      /\ ~Exists(prev, TargetPath) ) =>
        /\ last.ret = TRUE
        /\ \A p \in At(prev, Parent(TargetPath)) :
           \A q \in At(tree, Parent(TargetPath)) :
              /\ q.children =
                    Append(p.children,
                           [node |-> [last.target EXCEPT !.overlay = "UpperAddition"],
                            children |-> <<>>])
              /\ Len(q.children) = Len(p.children) + 1
        /\ Exists(tree, Parent(TargetPath))

\* /b/b added to { /a, /b/a }.
C8_Witness ==
    /\ PlainCall /\ prev = LowerS3
    /\ last.target = Upper(<<ROOT, NameB, NameB>>, "reg", FALSE)
    /\ last.ret = TRUE
    /\ \E t \in At(tree, <<ROOT, NameB>>) :
          /\ Len(t.children) = 2
          /\ t.children[2].node.overlay = "UpperAddition"
          /\ name(t.children[2].node) = NameB

\* Whether the tree holds a position for the last call's target.
PositionExists ==
    IF RemovalCall THEN Exists(prev, RemovedPath)
    ELSE IF OciOpaqueCall THEN Exists(prev, Parent(TargetPath))
    ELSE \/ TargetPath = <<ROOT>>
         \/ \E p \in At(prev, Parent(TargetPath)) : is_dir(p.node)

C10_OverlayFsOpaque ==
    (OverlayFsOpaqueCall /\ Exists(prev, TargetPath)) =>
        /\ last.ret = TRUE
        /\ Exists(tree, TargetPath)
        /\ \A t \in At(tree, TargetPath) :
              /\ t.node = [last.target EXCEPT !.overlay = "UpperModification"]
              /\ t.children = <<>>

\* C10 for every path but the root.
OverlayFsOpaqueBelowRoot ==
    TargetPath # <<ROOT>> => C10_OverlayFsOpaque


\* C11 as stated: a removal or opaque whiteout whose target matches nothing
\* makes apply return false and leaves the tree unchanged.
C11_UnmatchedWhiteoutOriginal ==
    /\ (RemovalCall /\ ~Exists(prev, RemovedPath))
          => (last.ret = FALSE /\ tree = prev)
    /\ (OciOpaqueCall /\ ~Exists(prev, Parent(TargetPath)))
          => (last.ret = FALSE /\ tree = prev)
    /\ (OverlayFsOpaqueCall /\ ~Exists(prev, TargetPath))
          => (last.ret = FALSE /\ tree = prev)

\* C11, amended: a removal whiteout or an OCI opaque marker that matches
\* nothing makes apply return false with the tree unchanged; an OverlayFS
\* opaque directory whose path is not in the tree is applied as an ordinary
\* node: added (true) when its parent directory exists, false and no change
\* otherwise.
C11_UnmatchedWhiteout ==
    /\ (RemovalCall /\ ~Exists(prev, RemovedPath))
          => (last.ret = FALSE /\ tree = prev)
    /\ (OciOpaqueCall /\ ~Exists(prev, Parent(TargetPath)))
          => (last.ret = FALSE /\ tree = prev)
    /\ (OverlayFsOpaqueCall /\ ~Exists(prev, TargetPath))
          => IF \E p \in At(prev, Parent(TargetPath)) : is_dir(p.node)
             THEN /\ last.ret = TRUE
                  /\ \A p \in At(prev, Parent(TargetPath)) :
                     \A q \in At(tree, Parent(TargetPath)) :
                        q.children =
                           Append(p.children,
                                  [node |-> [last.target EXCEPT
                                                !.overlay = "UpperAddition"],
                                   children |-> <<>>])
             ELSE last.ret = FALSE /\ tree = prev

\* `.wh.b` inside /b applied to { /a/b/, /b } where /b is a regular file.
C11_Witness ==
    /\ OciRemovalCall /\ prev = LowerMixed
    /\ RemovedPath = <<ROOT, NameB, NameB>>
    /\ last.ret = FALSE /\ tree = prev

\* Whiteout nodes as the given spec defines them.
IsWhiteoutNode(node, spec) ==
    IF spec = "Oci"
    THEN node.kind = "reg" /\ StartsWith(name(node), OCISPEC_WHITEOUT_PREFIX)
    ELSE node.kind = "chr" /\ node.rdev = 0

HasWhiteoutNode(t, spec) == \E e \in Flat(t) : IsWhiteoutNode(e.node, spec)

\* C12: an apply with handle_whiteout = true on a tree without whiteout
\* nodes leaves a tree without whiteout nodes (no `.wh.<name>` or
\* `.wh..wh..opq` file under the OCI spec, no rdev-0 character device under
\* the OverlayFS spec); lower trees hold none, so no sequence of such calls
\* under one spec produces one.
C12_WhiteoutsConsumed ==
    /\ \A lower \in LowerTrees, spec \in WhiteoutSpecs : ~HasWhiteoutNode(lower, spec)
    /\ (Called /\ last.handle_whiteout /\ ~HasWhiteoutNode(prev, last.whiteout_spec))
          => ~HasWhiteoutNode(tree, last.whiteout_spec)

\* An OCI removal whiteout that matches nothing, after an earlier call that
\* changed the tree: the whiteout file is not stored.
C12_Witness ==
    /\ steps = 2 /\ OciRemovalCall /\ last.ret = FALSE
    /\ ~HasWhiteoutNode(prev, "Oci") /\ ~HasWhiteoutNode(tree, "Oci")
    /\ \E e \in Flat(prev) : e.node.overlay = "UpperAddition"

\* The byte value of a character of a name.
Byte(c) ==
    CASE c = "." -> 46 [] c = "/" -> 47 [] c = "a" -> 97 [] c = "b" -> 98
      [] c = "h" -> 104 [] c = "o" -> 111 [] c = "p" -> 112 [] c = "q" -> 113
      [] c = "w" -> 119

\* Bytewise (lexicographic) order of names.
RECURSIVE NameLess(_, _)
NameLess(x, y) ==
    IF y = <<>> THEN FALSE
    ELSE IF x = <<>> THEN TRUE
    ELSE IF Byte(Head(x)) # Byte(Head(y)) THEN Byte(Head(x)) < Byte(Head(y))
    ELSE NameLess(Tail(x), Tail(y))

RECURSIVE ChildrenSorted(_)
ChildrenSorted(t) ==
    /\ \A i \in 1..(Len(t.children) - 1) :
          NameLess(name(t.children[i].node), name(t.children[i + 1].node))
    /\ \A i \in DOMAIN t.children : ChildrenSorted(t.children[i])

\* C13: every directory's children are sorted bytewise by name after any
\* sequence of apply calls on a tree that started sorted.
C13_ChildrenSorted ==
    /\ \A lower \in LowerTrees : ChildrenSorted(lower)
    /\ ChildrenSorted(tree)

RECURSIVE NamesUnique(_)
NamesUnique(t) ==
    /\ \A i, j \in DOMAIN t.children :
          i # j => name(t.children[i].node) # name(t.children[j].node)
    /\ \A i \in DOMAIN t.children : NamesUnique(t.children[i])

\* C14: no directory has two children of the same name after any sequence
\* of apply calls on a tree that started that way.
C14_NamesUnique ==
    /\ \A lower \in LowerTrees : NamesUnique(lower)
    /\ NamesUnique(tree)

\* Two calls on the same existing path: a modification of a node a previous
\* call already touched.
C14_Witness ==
    /\ steps = 2 /\ PlainCall /\ last.ret = TRUE
    /\ Exists(prev, TargetPath) /\ TargetPath # <<ROOT>>
    /\ \E t \in At(prev, TargetPath) : t.node.overlay # "Lower"
    /\ NamesUnique(tree)


\* C21: a plain apply of a node whose path is "/" replaces the root node by
\* the upper node marked UpperModification, leaves the root's children as
\* they are and returns true, whatever the tree holds.
C21_RootModification ==
    (PlainCall /\ TargetPath = <<ROOT>>) =>
        /\ last.ret = TRUE
        /\ tree.node = [last.target EXCEPT !.overlay = "UpperModification"]
        /\ tree.children = prev.children

\* The root of { /a/a, /a/b/a, /b/a, /b/b } replaced by an upper root.
C21_Witness ==
    /\ PlainCall /\ TargetPath = <<ROOT>> /\ prev = LowerFull
    /\ last.ret = TRUE
    /\ tree.node.overlay = "UpperModification" /\ tree.node.data = "upper"
    /\ Len(tree.children) = 2

\* C22: an upper root directory carrying the OverlayFS opaque marker
\* (handle_whiteout = true): apply returns true and no lower-layer child of
\* "/" remains.
C22_RootOverlayFsOpaque ==
    (OverlayFsOpaqueCall /\ TargetPath = <<ROOT>>) =>
        /\ last.ret = TRUE
        /\ \A i \in DOMAIN tree.children : tree.children[i].node.overlay # "Lower"

RECURSIVE OnlyDirsHaveChildren(_)
OnlyDirsHaveChildren(t) ==
    /\ t.children # <<>> => is_dir(t.node)
    /\ \A i \in DOMAIN t.children : OnlyDirsHaveChildren(t.children[i])

\* C27: after any sequence of apply calls every node with a non-empty
\* children list is a directory.
C27_OnlyDirsHaveChildren == OnlyDirsHaveChildren(tree)

\* The entries of a tree with their positions: the path of names and the
\* index among the siblings at every level.
RECURSIVE FlatIdxFrom(_, _, _)
FlatIdxFrom(t, pos, idx) ==
    {[path |-> pos, idx |-> idx, node |-> t.node]}
    \cup UNION { FlatIdxFrom(t.children[i], Append(pos, name(t.children[i].node)),
                             Append(idx, i)) :
                 i \in DOMAIN t.children }

FlatIdx(t) == FlatIdxFrom(t, <<ROOT>>, <<>>)

\* C28: a plain apply that adds or modifies the node at path P changes
\* nothing else: every node not at P keeps its data, its overlay status, its
\* descendants and its index among its siblings, and nothing but P appears.
C28_Frame ==
    (PlainCall /\ last.ret = TRUE) =>
        /\ { e \in FlatIdx(tree) : e.path # TargetPath }
              = { e \in FlatIdx(prev) : e.path # TargetPath }
        /\ \E e \in FlatIdx(tree) :
              e.path = TargetPath /\ e.node.data = last.target.data

\* /a/a added behind /a/b in a tree that also holds /b.
C28_Witness ==
    /\ PlainCall /\ last.ret = TRUE /\ prev = LowerMixed
    /\ last.target = Upper(<<ROOT, NameA, NameA>>, "reg", FALSE)
    /\ \E e \in FlatIdx(tree) : e.path = <<ROOT, NameA, NameA>> /\ e.idx = <<1, 2>>
    /\ \E e \in FlatIdx(tree) : e.path = <<ROOT, NameA, NameB>> /\ e.idx = <<1, 1>>
    /\ \E e \in FlatIdx(tree) : e.path = <<ROOT, NameB>> /\ e.idx = <<2>>

\* ---------------------------------------------------------------------------
\* src/bin/nydus-image/core/tree.rs: Tree::from_bootstrap and
\* MetadataTreeBuilder. RafsSuper and its inodes (the loader of the rafs
\* crate) and the chunk dictionary are modelled after the specification's
\* loader interface: a table of inodes, each lookup of which may fail.
\* ---------------------------------------------------------------------------

\* rafs::metadata::layout::RAFS_ROOT_INODE
RAFS_ROOT_INODE == 1

Inode(nm, kind, children, chunks, xattrs) ==
    [name |-> nm, kind |-> kind, children |-> children, chunks |-> chunks,
     xattrs |-> xattrs]

ChunkInfo(digest, file_offset) == [digest |-> digest, file_offset |-> file_offset]

\* ChunkWrapper::from_chunk_info
from_chunk_info(cki) ==
    [wrapper |-> "v5", digest |-> cki.digest, file_offset |-> cki.file_offset]

\* ChunkDict::add_chunk
add_chunk(chunk_dict, chunk) == chunk_dict \cup {chunk}

NoFail == <<"none", 0>>

\* The result of a fallible step, with the chunk dictionary as it then is.
Res(ok, val, dict, err) == [ok |-> ok, val |-> val, dict |-> dict, err |-> err]

\* RafsSuper::get_inode(ino, validate_digest)
get_inode(rs, fail, ino) ==
    IF fail = <<"inode", ino>> THEN Err("inode") ELSE Ok(ino)

\* RafsInode::get_child_by_index(idx)
get_child_by_index(rs, fail, ino, idx) ==
    LET child == rs[ino].children[idx + 1]
    IN IF fail = <<"child", child>> THEN Err("child") ELSE Ok(child)

\* MetadataTreeBuilder::parse_node
parse_node(rs, fail, ino, path) ==
    LET inode == rs[ino]
    IN IF inode.kind = "reg" /\ Len(inode.chunks) > 0 /\ fail = <<"chunk", ino>>
       THEN Err("chunk")
       ELSE IF inode.kind = "symlink" /\ fail = <<"symlink", ino>>
       THEN Err("symlink")
       ELSE IF fail = <<"xattrs", ino>>
       THEN Err("xattrs")
       ELSE IF Len(inode.xattrs) > 0 /\ fail = <<"xattr", ino>>
       THEN Err("xattr")
       ELSE [ok |-> TRUE, err |-> "",
             val |-> [target_vec |-> path,
                      src_ino |-> ino,
                      kind |-> inode.kind,
                      overlay |-> "Lower",
                      chunks |-> IF inode.kind = "reg"
                                 THEN [i \in DOMAIN inode.chunks |->
                                          from_chunk_info(inode.chunks[i])]
                                 ELSE <<>>,
                      symlink |-> IF inode.kind = "symlink"
                                  THEN Some(<<"t">>) ELSE None,
                      xattrs |-> inode.xattrs]]

\* `parent_path` in load_children: parent.join(inode.name()), "/" for the root.
ParentPath_mut_nojoin(rs, ino, parent) ==
    IF parent.some THEN parent.v ELSE <<ROOT>>

ParentPath(rs, ino, parent) ==
    IF parent.some THEN Append(parent.v, rs[ino].name) ELSE <<ROOT>>

\* `for chunk in &child.chunks { chunk_dict.add_chunk(chunk.clone()) }`
AddChunks(node, chunk_dict) ==
    IF node.kind = "reg"
    THEN chunk_dict \cup { node.chunks[i] : i \in DOMAIN node.chunks }
    ELSE chunk_dict

RECURSIVE load_children(_, _, _, _, _)
RECURSIVE LoadChildrenLoop(_, _, _, _, _, _, _)

\* The loop `for idx in 0..child_count` of load_children.
LoadChildrenLoop(rs, fail, ino, parent_path, idx, children, chunk_dict) ==
    IF idx >= Len(rs[ino].children) THEN Res(TRUE, children, chunk_dict, "")
    ELSE LET c == get_child_by_index(rs, fail, ino, idx)
         IN IF ~c.ok THEN Res(FALSE, <<>>, chunk_dict, c.err)
            ELSE LET child_ino == c.val
                     child_path == Append(parent_path, rs[child_ino].name)
                     n == parse_node(rs, fail, child_ino, child_path)
                 IN IF ~n.ok THEN Res(FALSE, <<>>, chunk_dict, n.err)
                    ELSE LET dict1 == AddChunks(n.val, chunk_dict)
                             sub == IF is_dir(n.val)
                                    THEN load_children(rs, fail, child_ino,
                                                       Some(parent_path), dict1)
                                    ELSE Res(TRUE, <<>>, dict1, "")
                         IN IF ~sub.ok THEN Res(FALSE, <<>>, sub.dict, sub.err)
                            ELSE LoadChildrenLoop(
                                    rs, fail, ino, parent_path, idx + 1,
                                    Append(children,
                                           [node |-> n.val, children |-> sub.val]),
                                    sub.dict)

\* MetadataTreeBuilder::load_children
load_children(rs, fail, ino, parent, chunk_dict) ==
    LET inode == get_inode(rs, fail, ino)
    IN IF ~inode.ok THEN Res(FALSE, <<>>, chunk_dict, inode.err)
       ELSE IF rs[ino].kind # "dir" THEN Res(TRUE, <<>>, chunk_dict, "")
       ELSE LoadChildrenLoop(rs, fail, ino, ParentPath(rs, ino, parent), 0,
                             <<>>, chunk_dict)

\* Tree::from_bootstrap
from_bootstrap(rs, fail, chunk_dict) ==
    LET root_inode == get_inode(rs, fail, RAFS_ROOT_INODE)
    IN IF ~root_inode.ok THEN Res(FALSE, <<>>, chunk_dict, root_inode.err)
       ELSE LET root_node == parse_node(rs, fail, RAFS_ROOT_INODE, <<ROOT>>)
            IN IF ~root_node.ok THEN Res(FALSE, <<>>, chunk_dict, root_node.err)
               ELSE LET c == load_children(rs, fail, RAFS_ROOT_INODE, None, chunk_dict)
                    IN IF ~c.ok THEN Res(FALSE, <<>>, c.dict, c.err)
                       ELSE Res(TRUE, [node |-> root_node.val, children |-> c.val],
                                c.dict, "")

\* Bootstraps explored.
\*   / { a (2 chunks), b/ { a (1 chunk, 1 xattr), b -> t } }
BootFiles ==
    <<Inode(ROOT, "dir", <<2, 3>>, <<>>, <<>>),
      Inode(NameA, "reg", <<>>, <<ChunkInfo("d1", 0), ChunkInfo("d2", 1)>>, <<>>),
      Inode(NameB, "dir", <<4, 5>>, <<>>, <<"user.x">>),
      Inode(NameA, "reg", <<>>, <<ChunkInfo("d3", 0)>>, <<"user.y">>),
      Inode(NameB, "symlink", <<>>, <<>>, <<>>)>>

\*   / { b/ { a/ { a (1 chunk), b (empty file) } } }
BootDeep ==
    <<Inode(ROOT, "dir", <<2>>, <<>>, <<>>),
      Inode(NameB, "dir", <<3>>, <<>>, <<>>),
      Inode(NameA, "dir", <<4, 5>>, <<>>, <<>>),
      Inode(NameA, "reg", <<>>, <<ChunkInfo("d1", 0)>>, <<>>),
      Inode(NameB, "reg", <<>>, <<>>, <<>>)>>

\*   / { }, the other inodes not linked anywhere
BootEmpty ==
    <<Inode(ROOT, "dir", <<>>, <<>>, <<"user.x">>),
      Inode(NameA, "reg", <<>>, <<ChunkInfo("d1", 0)>>, <<>>),
      Inode(NameB, "dir", <<>>, <<>>, <<>>),
      Inode(NameA, "symlink", <<>>, <<>>, <<>>),
      Inode(NameB, "reg", <<>>, <<>>, <<>>)>>

\*   / { a -> t, b/ { }, the same chunk in two files below }
BootFlat ==
    <<Inode(ROOT, "dir", <<2, 3, 4, 5>>, <<>>, <<>>),
      Inode(<<"-">>, "symlink", <<>>, <<>>, <<"user.x">>),
      Inode(NameA, "dir", <<>>, <<>>, <<>>),
      Inode(NameB, "reg", <<>>, <<ChunkInfo("d1", 0)>>, <<>>),
      Inode(<<"c">>, "reg", <<>>, <<ChunkInfo("d1", 0), ChunkInfo("d2", 1)>>, <<>>)>>

\*   / { a/ { a, b }, b }
BootWide ==
    <<Inode(ROOT, "dir", <<2, 5>>, <<>>, <<>>),
      Inode(NameA, "dir", <<3, 4>>, <<>>, <<>>),
      Inode(NameA, "reg", <<>>, <<ChunkInfo("d1", 0)>>, <<>>),
      Inode(NameB, "reg", <<>>, <<>>, <<>>),
      Inode(NameB, "reg", <<>>, <<ChunkInfo("d2", 0)>>, <<>>)>>

Bootstraps == {BootFiles, BootDeep, BootEmpty, BootFlat, BootWide}

FailPoints ==
    {NoFail}
    \cup { <<op, ino>> : op \in {"inode", "child", "chunk", "symlink", "xattrs", "xattr"},
                         ino \in DOMAIN BootFiles }

\* Chunk dictionaries the load starts with: empty, or holding a chunk of a
\* chunk-dict bootstrap.
ChunkDicts == { {}, {from_chunk_info(ChunkInfo("d9", 0))} }

NotLoaded == Res(FALSE, <<>>, {}, "not loaded")

RECURSIVE iterate(_, _, _)
RECURSIVE IterateChildren(_, _, _, _)

\* `for child in &self.children { child.iterate(cb)?; }`
IterateChildren(self, idx, stop, visited) ==
    IF idx > Len(self.children) THEN Ok(visited)
    ELSE LET r == iterate(self.children[idx], stop, visited)
         IN IF ~r.ok THEN r
            ELSE IterateChildren(self, idx + 1, stop, r.val)

\* Tree::iterate with a callback that records the node it is given and
\* returns false for the nodes in `stop`; the value is the record so far.
iterate_mut_descend(self, stop, visited) ==
    IterateChildren(self, 1, stop, Append(visited, self.node))

iterate(self, stop, visited) ==
    IF self.node.src_ino \in stop
    THEN Ok(Append(visited, self.node))
    ELSE IterateChildren(self, 1, stop, Append(visited, self.node))

NotIterated == [ok |-> FALSE, val |-> <<>>, err |-> "not called"]

\* The builder walking the loaded tree with Tree::iterate.
Iterate ==
    /\ boot.pc = "loaded" /\ boot.res.ok
    /\ \E stop \in SUBSET DOMAIN boot.rs :
          boot' = [boot EXCEPT !.pc = "iterated", !.stop = stop,
                               !.iter = iterate(boot.res.val, stop, <<>>)]
    /\ UNCHANGED notBoot

\* The builder calling Tree::from_bootstrap on the parent bootstrap.
Load ==
    /\ boot.pc = "ready"
    /\ boot' = [boot EXCEPT !.pc = "loaded",
                            !.res = from_bootstrap(boot.rs, boot.fail, boot.dict0)]
    /\ UNCHANGED notBoot

InitBoot ==
    /\ IoInit /\ TreeInit(LowerEmpty) /\ CliIdle /\ DmnIdle /\ VqIdle /\ EvtIdle
    /\ \E rs \in Bootstraps, fail \in FailPoints, dict0 \in ChunkDicts :
          boot = [pc |-> "ready", rs |-> rs, fail |-> fail, dict0 |-> dict0,
                  res |-> NotLoaded, stop |-> {}, iter |-> NotIterated]

NextBoot == Load \/ Iterate

SpecBoot == InitBoot /\ [][NextBoot]_vars

\* ---------------------------------------------------------------------------
\* Properties of Tree::from_bootstrap (checked under SpecBoot)
\* ---------------------------------------------------------------------------

\* The inodes the tree of a bootstrap holds: the root and, below directories,
\* their children.
RECURSIVE ReachFrom(_, _)
ReachFrom(rs, ino) ==
    {ino} \cup (IF rs[ino].kind = "dir"
                THEN UNION { ReachFrom(rs, rs[ino].children[i]) :
                             i \in DOMAIN rs[ino].children }
                ELSE {})

\* Whether the failing lookup is one the load has to make.
LookupNeeded(rs, fail) ==
    /\ fail # NoFail
    /\ fail[2] \in ReachFrom(rs, RAFS_ROOT_INODE)
    /\ CASE fail[1] = "inode" -> rs[fail[2]].kind = "dir"
         [] fail[1] = "child" -> fail[2] # RAFS_ROOT_INODE
         [] fail[1] = "chunk" -> rs[fail[2]].kind = "reg" /\ Len(rs[fail[2]].chunks) > 0
         [] fail[1] = "symlink" -> rs[fail[2]].kind = "symlink"
         [] fail[1] = "xattrs" -> TRUE
         [] fail[1] = "xattr" -> Len(rs[fail[2]].xattrs) > 0

\* The shape the bootstrap describes, as a tree of (path, inode number).
RECURSIVE ShapeOf(_, _, _)
ShapeOf(rs, ino, path) ==
    [path |-> path, ino |-> ino,
     children |-> IF rs[ino].kind = "dir"
                  THEN [i \in DOMAIN rs[ino].children |->
                           ShapeOf(rs, rs[ino].children[i],
                                   Append(path, rs[rs[ino].children[i]].name))]
                  ELSE <<>>]

RECURSIVE ShapeOfTree(_)
ShapeOfTree(t) ==
    [path |-> t.node.target_vec, ino |-> t.node.src_ino,
     children |-> [i \in DOMAIN t.children |-> ShapeOfTree(t.children[i])]]

RECURSIVE NodesOf(_)
NodesOf(t) == {t.node} \cup UNION { NodesOf(t.children[i]) : i \in DOMAIN t.children }

\* C15: from_bootstrap yields a tree of the bootstrap's shape with every
\* node Lower and every chunk of every regular file in the dictionary; if
\* a lookup it makes fails, it yields the error and no tree.
C15_FromBootstrap ==
    boot.pc \in {"loaded", "iterated"} =>
        IF LookupNeeded(boot.rs, boot.fail)
        THEN ~boot.res.ok /\ boot.res.val = <<>> /\ boot.res.err = boot.fail[1]
        ELSE /\ boot.res.ok
             /\ ShapeOfTree(boot.res.val) = ShapeOf(boot.rs, RAFS_ROOT_INODE, <<ROOT>>)
             /\ \A n \in NodesOf(boot.res.val) :
                   /\ n.overlay = "Lower"
                   /\ n.kind = boot.rs[n.src_ino].kind
                   /\ n.kind = "reg" =>
                         \A i \in DOMAIN boot.rs[n.src_ino].chunks :
                            from_chunk_info(boot.rs[n.src_ino].chunks[i])
                               \in boot.res.dict
             /\ boot.dict0 \subseteq boot.res.dict

\* The three-level bootstrap loaded without a failing lookup.
C15_Witness ==
    /\ boot.pc = "loaded" /\ boot.rs = BootDeep /\ boot.fail = NoFail
    /\ boot.res.ok
    /\ boot.res.val.children[1].children[1].children[1].node.target_vec
          = <<ROOT, NameB, NameA, NameA>>
    /\ from_chunk_info(ChunkInfo("d1", 0)) \in boot.res.dict


RECURSIVE LexLess(_, _)
LexLess(p, q) ==
    IF p = <<>> THEN q # <<>>
    ELSE IF q = <<>> THEN FALSE
    ELSE IF Head(p) # Head(q) THEN Head(p) < Head(q)
    ELSE LexLess(Tail(p), Tail(q))

\* The position (index path) of a node of the loaded tree.
IdxOf(t, node) == (CHOOSE e \in FlatIdx(t) : e.node = node).idx

\* C26: Tree::iterate calls the callback in depth-first pre-order (a node
\* before its children, children in list order), once for every node that
\* has no ancestor for which the callback returned false, and returns Ok;
\* with a callback that always returns true that is every node.
C26_Iterate ==
    boot.pc = "iterated" =>
        LET t == boot.res.val
            v == boot.iter.val
        IN /\ boot.iter.ok
           /\ \A i, j \in DOMAIN v : i < j => LexLess(IdxOf(t, v[i]), IdxOf(t, v[j]))
           /\ { v[i] : i \in DOMAIN v }
                 = { e.node : e \in
                       { e \in FlatIdx(t) :
                           \A a \in FlatIdx(t) :
                              (a.idx # e.idx /\ IsPrefix(a.idx, e.idx))
                                 => a.node.src_ino \notin boot.stop } }
           /\ boot.stop = {} => Len(v) = Cardinality(FlatIdx(t))

\* / { a/ { a, b }, b } with the callback returning false for /a: /a is
\* visited, its children are not, /b is.
C26_Witness ==
    /\ boot.pc = "iterated" /\ boot.rs = BootWide /\ boot.stop = {2}
    /\ Len(boot.iter.val) = 3
    /\ boot.iter.val[2].target_vec = <<ROOT, NameA>>
    /\ boot.iter.val[3].target_vec = <<ROOT, NameB>>

\* ---------------------------------------------------------------------------
\* src/bin/nydus-image/main.rs: Command::create and its argument helpers.
\* Strings are sequences of characters, so trimming and parsing are computed.
\* ---------------------------------------------------------------------------

\* const BLOB_ID_MAXIMUM_LENGTH
BLOB_ID_MAXIMUM_LENGTH == 255

\* storage::RAFS_DEFAULT_CHUNK_SIZE, 1 MiB (0x100000)
RAFS_DEFAULT_CHUNK_SIZE == 1048576

EndsWith(s, suffix) ==
    Len(s) >= Len(suffix) /\ SubSeq(s, Len(s) - Len(suffix) + 1, Len(s)) = suffix

\* str::trim_start_matches(pat): the prefix is removed as often as it matches.
RECURSIVE trim_start_matches(_, _)
trim_start_matches(s, pat) ==
    IF pat # <<>> /\ StartsWith(s, pat)
    THEN trim_start_matches(SubSeq(s, Len(pat) + 1, Len(s)), pat)
    ELSE s

\* str::trim_end_matches(pat): the suffix is removed as often as it matches.
RECURSIVE trim_end_matches(_, _)
trim_end_matches(s, pat) ==
    IF pat # <<>> /\ EndsWith(s, pat)
    THEN trim_end_matches(SubSeq(s, 1, Len(s) - Len(pat)), pat)
    ELSE s

IsWhitespace(c) == c \in {" ", "\t", "\n"}

\* str::trim(): leading and trailing whitespace removed.
RECURSIVE trim(_)
trim(s) ==
    IF s # <<>> /\ IsWhitespace(Head(s)) THEN trim(Tail(s))
    ELSE IF s # <<>> /\ IsWhitespace(s[Len(s)]) THEN trim(SubSeq(s, 1, Len(s) - 1))
    ELSE s

LowerHex == <<"0", "1", "2", "3", "4", "5", "6", "7", "8", "9",
              "a", "b", "c", "d", "e", "f">>
UpperHex == <<"A", "B", "C", "D", "E", "F">>

IsHexDigit(c) ==
    (\E i \in DOMAIN LowerHex : LowerHex[i] = c) \/ (\E i \in DOMAIN UpperHex : UpperHex[i] = c)

\* char::to_digit(16)
to_digit(c) ==
    IF \E i \in DOMAIN LowerHex : LowerHex[i] = c
    THEN (CHOOSE i \in DOMAIN LowerHex : LowerHex[i] = c) - 1
    ELSE (CHOOSE i \in DOMAIN UpperHex : UpperHex[i] = c) + 9

\* The digit loop of u32::from_str_radix(_, 16): the multiplication by 16
\* overflows a u32 exactly when the accumulator has reached 2^28.
RECURSIVE FromDigits(_, _)
FromDigits(digits, acc) ==
    IF digits = <<>> THEN Ok(acc)
    ELSE IF ~IsHexDigit(Head(digits)) THEN Err("InvalidDigit")
    ELSE IF acc >= 268435456 THEN Err("PosOverflow")
    ELSE FromDigits(Tail(digits), acc * 16 + to_digit(Head(digits)))

\* u32::from_str_radix(src, 16)
from_str_radix(src) ==
    IF src = <<>> THEN Err("Empty")
    ELSE LET digits == IF Head(src) = "+" THEN Tail(src) ELSE src
         IN IF digits = <<>> THEN Err("InvalidDigit") ELSE FromDigits(digits, 0)

\* u32::is_power_of_two
is_power_of_two(x) == x # 0 /\ BitAnd(x, x - 1) = 0

Zs(n) == [i \in 1..n |-> "0"]

\* clap's value_of("chunk-size"): the argument, or default_value "0x100000".
value_of_chunk_size(args) ==
    IF args.chunk_size.some THEN args.chunk_size
    ELSE Some(<<"0", "x", "1">> \o Zs(5))

\* Command::get_chunk_size
get_chunk_size(arg) ==
    IF ~arg.some THEN Ok(RAFS_DEFAULT_CHUNK_SIZE)
    ELSE LET param == trim_end_matches(trim_start_matches(arg.v, <<"0", "x">>),
                                       <<"0", "X">>)
             chunk_size == from_str_radix(param)
         IN IF ~chunk_size.ok THEN Err("invalid chunk size")
            ELSE IF \/ chunk_size.val > RAFS_DEFAULT_CHUNK_SIZE
                    \/ chunk_size.val < 4096
                    \/ ~is_power_of_two(chunk_size.val)
            THEN Err("invalid chunk size")
            ELSE Ok(chunk_size.val)

\* Command::get_blob_id
get_blob_id(arg) ==
    IF arg.some /\ Len(arg.v) > BLOB_ID_MAXIMUM_LENGTH
    THEN Err("blob id is limited to length")
    ELSE Ok(IF arg.some THEN arg.v ELSE <<>>)

\* compress::Algorithm::from_str
compress_from_str(s) ==
    CASE s = "none" -> Ok("None")
      [] s = "lz4_block" -> Ok("Lz4Block")
      [] s = "gzip" -> Ok("GZip")
      [] OTHER -> Err("invalid compressor")

\* digest::Algorithm::from_str
digest_from_str(s) ==
    CASE s = "blake3" -> Ok("Blake3")
      [] s = "sha256" -> Ok("Sha256")
      [] OTHER -> Err("invalid digester")


\* The `match source_type` of Command::create: the source path is checked,
\* and a stargz index needs a blob id and fixes compressor and digester.
SourceTypeMatch_mut_keepdigester(source_type, path_ok, blob_id, compressor, digester) ==
    IF source_type \in {"directory", "diff"}
    THEN IF ~path_ok
         THEN [ok |-> FALSE, err |-> "specified path must be a directory",
               compressor |-> compressor, digester |-> digester]
         ELSE [ok |-> TRUE, err |-> "", compressor |-> compressor, digester |-> digester]
    ELSE IF ~path_ok
         THEN [ok |-> FALSE, err |-> "specified path must be a regular file",
               compressor |-> compressor, digester |-> digester]
         ELSE IF trim(blob_id) = <<>>
         THEN [ok |-> FALSE, err |-> "blob-id can't be empty",
               compressor |-> compressor, digester |-> digester]
         ELSE [ok |-> TRUE, err |-> "", compressor |-> "GZip", digester |-> digester]

SourceTypeMatch(source_type, path_ok, blob_id, compressor, digester) ==
    IF source_type \in {"directory", "diff"}
    THEN IF ~path_ok
         THEN [ok |-> FALSE, err |-> "specified path must be a directory",
               compressor |-> compressor, digester |-> digester]
         ELSE [ok |-> TRUE, err |-> "", compressor |-> compressor, digester |-> digester]
    ELSE IF ~path_ok
         THEN [ok |-> FALSE, err |-> "specified path must be a regular file",
               compressor |-> compressor, digester |-> digester]
         ELSE IF trim(blob_id) = <<>>
         THEN [ok |-> FALSE, err |-> "blob-id can't be empty",
               compressor |-> compressor, digester |-> digester]
         ELSE [ok |-> TRUE, err |-> "", compressor |-> "GZip", digester |-> "Sha256"]

NotCalled == [ok |-> FALSE, val |-> 0, err |-> "not called"]

Prepared(ok, err, blob_id, chunk_size, compressor, digester) ==
    [ok |-> ok, err |-> err, blob_id |-> blob_id, chunk_size |-> chunk_size,
     compressor |-> compressor, digester |-> digester]

\* Command::create up to the construction of the builder. `env` tells which
\* of the steps that depend on the file system succeed.
CreatePrepare(args, env) ==
    LET blob_id == get_blob_id(args.blob_id)
        chunk_size == get_chunk_size(value_of_chunk_size(args))
        compressor == compress_from_str(args.compressor)
        digester == digest_from_str(args.digester)
        m == SourceTypeMatch(args.source_type, env.path_ok, blob_id.val,
                             compressor.val, digester.val)
    IN IF ~blob_id.ok
       THEN Prepared(FALSE, blob_id.err, <<>>, NotCalled, "unset", "unset")
       ELSE IF ~chunk_size.ok
       THEN Prepared(FALSE, chunk_size.err, blob_id.val, chunk_size, "unset", "unset")
       ELSE IF ~env.storage_ok
       THEN Prepared(FALSE, "setup failed", blob_id.val, chunk_size, "unset", "unset")
       ELSE IF ~compressor.ok
       THEN Prepared(FALSE, compressor.err, blob_id.val, chunk_size, "unset", "unset")
       ELSE IF ~digester.ok
       THEN Prepared(FALSE, digester.err, blob_id.val, chunk_size, "unset", "unset")
       ELSE IF ~m.ok
       THEN Prepared(FALSE, m.err, blob_id.val, chunk_size, "unset", "unset")
       ELSE IF ~env.builder_ok
       THEN Prepared(FALSE, "setup failed", blob_id.val, chunk_size, "unset", "unset")
       ELSE Prepared(TRUE, "", blob_id.val, chunk_size, m.compressor, m.digester)

\* Command::validate_image; `outcome` is what the validator would report.
validate_image_mut_always(disable_check, outcome) ==
    IF outcome = "new failed"
    THEN [ok |-> FALSE, err |-> "validator failed", events |-> <<>>]
    ELSE IF outcome = "check failed"
    THEN [ok |-> FALSE, err |-> "failed to validate bootstrap",
          events |-> <<"validate">>]
    ELSE [ok |-> TRUE, err |-> "", events |-> <<"validate">>]

validate_image(disable_check, outcome) ==
    IF disable_check THEN [ok |-> TRUE, err |-> "", events |-> <<>>]
    ELSE IF outcome = "new failed"
    THEN [ok |-> FALSE, err |-> "validator failed", events |-> <<>>]
    ELSE IF outcome = "check failed"
    THEN [ok |-> FALSE, err |-> "failed to validate bootstrap",
          events |-> <<"validate">>]
    ELSE [ok |-> TRUE, err |-> "", events |-> <<"validate">>]

\* OutputSerializer::dump
dump(output_json, outcome) ==
    IF ~output_json THEN [ok |-> TRUE, err |-> "", events |-> <<>>]
    ELSE IF outcome = "open failed"
    THEN [ok |-> FALSE, err |-> "Output file can't be opened", events |-> <<>>]
    ELSE IF outcome = "write failed"
    THEN [ok |-> FALSE, err |-> "Write output file failed", events |-> <<"report">>]
    ELSE [ok |-> TRUE, err |-> "", events |-> <<"report">>]

Envs == [path_ok : BOOLEAN, storage_ok : BOOLEAN, builder_ok : BOOLEAN]

\* create, from its entry to the call of the builder.
CreateStart ==
    /\ cli.pc = "start"
    /\ \E env \in Envs :
          LET p == CreatePrepare(cli.args, env)
          IN cli' = [cli EXCEPT !.pc = IF p.ok THEN "build" ELSE "failed",
                                !.blob_id = p.blob_id,
                                !.chunk_size = p.chunk_size,
                                !.compressor = p.compressor,
                                !.digester = p.digester,
                                !.ret = IF p.ok THEN "running" ELSE p.err]
    /\ UNCHANGED notCli

\* builder.build(..).context("build failed")?
CreateBuild ==
    /\ cli.pc = "build"
    /\ \E ok \in BOOLEAN :
          cli' = [cli EXCEPT !.pc = IF ok THEN "validate" ELSE "failed",
                             !.log = Append(@, "build"),
                             !.build_ok = ok,
                             !.ret = IF ok THEN "running" ELSE "build failed"]
    /\ UNCHANGED notCli

\* Self::validate_image(&matches, &bootstrap_path)?
CreateValidate ==
    /\ cli.pc = "validate"
    /\ \E outcome \in {"ok", "new failed", "check failed"} :
          LET r == validate_image(cli.args.disable_check, outcome)
          IN cli' = [cli EXCEPT !.pc = IF r.ok THEN "dump" ELSE "failed",
                                !.log = @ \o r.events,
                                !.ret = IF r.ok THEN "running" ELSE r.err]
    /\ UNCHANGED notCli

\* OutputSerializer::dump(matches, &build_output, &build_info)?; Ok(())
CreateDump ==
    /\ cli.pc = "dump"
    /\ \E outcome \in {"ok", "open failed", "write failed"} :
          LET r == dump(cli.args.output_json, outcome)
          IN cli' = [cli EXCEPT !.pc = IF r.ok THEN "done" ELSE "failed",
                                !.log = @ \o r.events,
                                !.ret = IF r.ok THEN "ok" ELSE r.err]
    /\ UNCHANGED notCli


\* --chunk-size values explored; None stands for an absent argument.
ChunkSizeArgs ==
    {None}
    \cup { Some(v) : v \in
            { <<"0", "x", "1">> \o Zs(3),                 \* 0x1000
              <<"0", "x", "1">> \o Zs(5),                 \* 0x100000
              <<"0", "x", "2">> \o Zs(3),                 \* 0x2000
              <<"0", "x", "8">> \o Zs(4),                 \* 0x80000
              <<"1">> \o Zs(3),                           \* 1000
              <<"0", "x">> \o Zs(4) \o <<"1">> \o Zs(3),  \* 0x00001000
              <<"0", "x", "8">> \o Zs(2),                 \* 0x800
              <<"0", "x", "2">> \o Zs(5),                 \* 0x200000
              <<"0", "x", "3">> \o Zs(3),                 \* 0x3000
              <<"0", "x", "A">> \o Zs(3),                 \* 0xA000
              <<"0", "x", "0">>,                          \* 0x0
              <<"0", "X", "1">> \o Zs(3),                 \* 0X1000
              <<"0", "x", "1">> \o Zs(5) \o <<"X">>,      \* 0x100000X
              <<"0", "x", "0", "x", "1">> \o Zs(3),       \* 0x0x1000
              <<"0", "x">>,                               \* 0x
              <<>>,                                       \* the empty string
              <<"z", "z">>,                               \* zz
              <<"0", "x", "1">> \o Zs(8),                 \* 0x100000000
              <<"0", "x", "7", "f", "f", "f", "f", "f", "f", "f">> } }

BlobIdArgs ==
    { None, Some(<<>>), Some(<<" ">>), Some(<<" ", "\t">>), Some(<<"b", "1">>),
      Some(<<" ", "b", " ">>),
      Some([i \in 1..BLOB_ID_MAXIMUM_LENGTH |-> "a"]),
      Some([i \in 1..(BLOB_ID_MAXIMUM_LENGTH + 1) |-> "a"]) }

CreateArgs ==
    [blob_id : BlobIdArgs, chunk_size : ChunkSizeArgs,
     source_type : {"directory", "stargz_index", "diff"},
     compressor : {"none", "lz4_block", "gzip"},
     digester : {"blake3", "sha256"},
     disable_check : BOOLEAN, output_json : BOOLEAN]

InitCli ==
    /\ IoInit /\ TreeInit(LowerEmpty) /\ BootIdle /\ DmnIdle /\ VqIdle /\ EvtIdle
    /\ \E args \in CreateArgs :
          cli = [pc |-> "start", args |-> args, blob_id |-> <<>>,
                 chunk_size |-> NotCalled, compressor |-> "unset",
                 digester |-> "unset", log |-> <<>>, build_ok |-> FALSE,
                 ret |-> "running"]

NextCli == CreateStart \/ CreateBuild \/ CreateValidate \/ CreateDump

SpecCli == InitCli /\ [][NextCli]_vars

\* ---------------------------------------------------------------------------
\* Properties of Command::create (checked under SpecCli)
\* ---------------------------------------------------------------------------

RECURSIVE HexOf(_)
HexOf(v) ==
    IF v < 16 THEN <<LowerHex[v + 1]>>
    ELSE HexOf(v \div 16) \o <<LowerHex[(v % 16) + 1]>>

\* s is a hexadecimal numeral for v: an optional 0x or 0X, then the digits.
DenotesHex(s, v) ==
    \E prefix \in {<<>>, <<"0", "x">>, <<"0", "X">>}, z \in 0..4 :
       s = prefix \o Zs(z) \o HexOf(v)

ValidChunkSizes == { 2^k : k \in 12..20 }

\* C16: get_chunk_size returns Ok(v) only for an argument that denotes, as
\* hexadecimal, a power of two v in [0x1000, 0x100000]; an absent argument
\* gives the default 0x100000; every other argument fails with "invalid
\* chunk size".
C16_ChunkSize ==
    cli.chunk_size # NotCalled =>
        LET arg == cli.args.chunk_size
            r == cli.chunk_size
        IN /\ r.ok => r.val \in ValidChunkSizes
           /\ (r.ok /\ arg.some) => DenotesHex(arg.v, r.val)
           /\ ~arg.some => r = Ok(RAFS_DEFAULT_CHUNK_SIZE)
           /\ (arg.some /\ ~\E v \in ValidChunkSizes : DenotesHex(arg.v, v))
                 => ~r.ok /\ r.err = "invalid chunk size"

AllWhitespace(s) == \A i \in DOMAIN s : IsWhitespace(s[i])

BlobIdGiven(args) == IF args.blob_id.some THEN args.blob_id.v ELSE <<>>

\* C17: for stargz_index the build context has compressor gzip and digester
\* sha256 whatever was requested, and with an empty or whitespace blob id
\* create fails before any build step; for directory and diff the requested
\* compressor and digester are used unchanged.
C17_StargzForcesAlgorithms ==
    /\ cli.compressor # "unset" =>
          IF cli.args.source_type = "stargz_index"
          THEN /\ cli.compressor = "GZip" /\ cli.digester = "Sha256"
               /\ ~AllWhitespace(BlobIdGiven(cli.args))
          ELSE /\ cli.compressor = compress_from_str(cli.args.compressor).val
               /\ cli.digester = digest_from_str(cli.args.digester).val
    /\ cli.log # <<>> => cli.compressor # "unset"
    /\ (/\ cli.pc # "start"
        /\ cli.args.source_type = "stargz_index"
        /\ AllWhitespace(BlobIdGiven(cli.args)))
          => cli.pc = "failed" /\ cli.log = <<>> /\ cli.ret \notin {"ok", "running"}

\* A stargz build asked to use lz4_block and blake3 has run to its end.
C17_Witness ==
    /\ cli.pc = "done" /\ cli.args.source_type = "stargz_index"
    /\ cli.args.compressor = "lz4_block" /\ cli.args.digester = "blake3"
    /\ cli.compressor = "GZip" /\ cli.digester = "Sha256"
    /\ cli.log[1] = "build"

IndexOf(log, e) == CHOOSE i \in DOMAIN log : log[i] = e
InLog(e) == \E i \in DOMAIN cli.log : cli.log[i] = e

\* C18: validation runs only after a successful build and before the JSON
\* report is written; it is skipped exactly when --disable-check is given;
\* a failed build or validation makes create return an error, and no report
\* is written.
C18_ValidateOrder ==
    /\ InLog("validate") =>
          /\ InLog("build") /\ cli.build_ok
          /\ IndexOf(cli.log, "build") < IndexOf(cli.log, "validate")
    /\ (InLog("validate") /\ InLog("report")) =>
          IndexOf(cli.log, "validate") < IndexOf(cli.log, "report")
    /\ cli.args.disable_check => ~InLog("validate")
    /\ (cli.pc \in {"dump", "done"} \/ InLog("report")) =>
          (InLog("validate") <=> ~cli.args.disable_check)
    /\ (InLog("build") /\ ~cli.build_ok) =>
          cli.pc = "failed" /\ cli.ret = "build failed" /\ ~InLog("report")
    /\ cli.ret \in {"validator failed", "failed to validate bootstrap"} =>
          cli.pc = "failed" /\ ~InLog("report")
    /\ cli.pc = "failed" <=> cli.ret \notin {"ok", "running"}
    /\ cli.ret = "ok" <=> cli.pc = "done"

\* A checked build that wrote its report.
C18_Witness ==
    /\ cli.pc = "done" /\ ~cli.args.disable_check
    /\ cli.log = <<"build", "validate", "report">>


\* ---------------------------------------------------------------------------
\* src/bin/nydusd/main.rs: the RLIMIT_NOFILE target and the shutdown path.
\* ---------------------------------------------------------------------------

\* `let mut max_fds: rlim = 1_000_000`, the default RLIMIT_NOFILE target
max_fds == 1000000

\* `let reserved_fds: rlim = 16_384`
reserved_fds == 16384

DecDigits == <<"0", "1", "2", "3", "4", "5", "6", "7", "8", "9">>

IsDecDigit(c) == \E i \in DOMAIN DecDigits : DecDigits[i] = c

RECURSIVE FromDecDigits(_, _)
FromDecDigits(digits, acc) ==
    IF digits = <<>> THEN Ok(acc)
    ELSE IF ~IsDecDigit(Head(digits)) THEN Err("InvalidDigit")
    ELSE FromDecDigits(Tail(digits),
                       acc * 10 + (CHOOSE i \in DOMAIN DecDigits :
                                      DecDigits[i] = Head(digits)) - 1)

\* str::parse::<rlim>(): decimal digits after an optional "+". The values
\* explored stay far below the width of rlim (u64).
parse_rlim(src) ==
    IF src = <<>> THEN Err("Empty")
    ELSE LET digits == IF Head(src) = "+" THEN Tail(src) ELSE src
         IN IF digits = <<>> THEN Err("InvalidDigit") ELSE FromDecDigits(digits, 0)

Min(a, b) == IF a < b THEN a ELSE b

\* get_default_rlimit_nofile; file_max is the content of
\* /proc/sys/fs/file-max (None if it cannot be read), nofile the result of
\* Resource::NOFILE.get().
get_default_rlimit_nofile_mut_nocap(file_max, nofile) ==
    IF ~file_max.some THEN Err("io")
    ELSE LET parsed == parse_rlim(trim(file_max.v))
         IN IF ~parsed.ok THEN Err("read fs.file-max sysctl wrong")
            ELSE IF parsed.val < 2 * reserved_fds
            THEN Err("The fs.file-max sysctl is too low")
            ELSE LET capped == max_fds
                 IN IF ~nofile.ok THEN Err("io")
                    ELSE Ok(IF nofile.val >= capped THEN 0 ELSE capped)

get_default_rlimit_nofile(file_max, nofile) ==
    IF ~file_max.some THEN Err("io")
    ELSE LET parsed == parse_rlim(trim(file_max.v))
         IN IF ~parsed.ok THEN Err("read fs.file-max sysctl wrong")
            ELSE IF parsed.val < 2 * reserved_fds
            THEN Err("The fs.file-max sysctl is too low")
            ELSE LET capped == Min(parsed.val - reserved_fds, max_fds)
                 IN IF ~nofile.ok THEN Err("io")
                    ELSE Ok(IF nofile.val >= capped THEN 0 ELSE capped)

\* clap's value_of("rlimit-nofile"): the argument, or default_value "1,000,000".
value_of_rlimit_nofile(args) ==
    IF args.rlimit_nofile.some THEN args.rlimit_nofile
    ELSE Some(<<"1", ",", "0", "0", "0", ",", "0", "0", "0">>)

\* `.map(|n| n.parse().unwrap_or(rlimit_nofile_default)).unwrap_or(rlimit_nofile_default)`
rlimit_nofile(arg, rlimit_nofile_default) ==
    IF ~arg.some THEN rlimit_nofile_default
    ELSE LET n == parse_rlim(arg.v)
         IN IF n.ok THEN n.val ELSE rlimit_nofile_default

\* main from the rlimit computation to the creation of the daemon:
\* the Resource::NOFILE.set calls made, and whether main goes on.
Startup(env, args, set_ok, create_ok) ==
    LET default == get_default_rlimit_nofile(env.file_max, env.nofile)
        rlimit == rlimit_nofile(value_of_rlimit_nofile(args), default.val)
        sets == IF args.shared_dir /\ rlimit # 0 THEN <<rlimit>> ELSE <<>>
    IN IF ~default.ok
       THEN [ok |-> FALSE, err |-> default.err, default |-> default, set_calls |-> <<>>]
       ELSE IF sets # <<>> /\ ~set_ok
       THEN [ok |-> FALSE, err |-> "setrlimit", default |-> default, set_calls |-> sets]
       ELSE IF ~create_ok
       THEN [ok |-> FALSE, err |-> "daemon", default |-> default, set_calls |-> sets]
       ELSE [ok |-> TRUE, err |-> "", default |-> default, set_calls |-> sets]


\* The digit loop of str::parse::<i32>(): the accumulator may not pass
\* i32::MAX (i32::MIN for a negative number).
RECURSIVE FromDecDigitsI32(_, _, _)
FromDecDigitsI32(digits, acc, negative) ==
    IF digits = <<>> THEN Ok(IF negative THEN 0 - acc ELSE acc)
    ELSE IF ~IsDecDigit(Head(digits)) THEN Err("InvalidDigit")
    ELSE LET d == (CHOOSE i \in DOMAIN DecDigits : DecDigits[i] = Head(digits)) - 1
         IN IF acc > 214748364 \/ (acc = 214748364 /\ d > 7)
            THEN Err(IF negative THEN "NegOverflow" ELSE "PosOverflow")
            ELSE FromDecDigitsI32(Tail(digits), acc * 10 + d, negative)

\* str::parse::<i32>()
parse_i32(src) ==
    IF src = <<>> THEN Err("Empty")
    ELSE LET signed == Head(src) \in {"+", "-"}
             digits == IF signed THEN Tail(src) ELSE src
         IN IF digits = <<>> THEN Err("InvalidDigit")
            ELSE FromDecDigitsI32(digits, 0, Head(src) = "-")

\* The validator of --thread-num.
thread_num_validator(v) ==
    LET t == parse_i32(v)
    IN IF t.ok
       THEN IF t.val > 0 \/ t.val > 1024
            THEN Ok(t.val)
            ELSE Err("Invalid working thread number {}, valid values: [1-1024]")
       ELSE Err("Input thread number is not legal")

\* clap parsing the command line: a rejected argument ends the process
\* with a usage error before main goes on.
ParseArgs ==
    /\ dmn.pc = "parse"
    /\ LET r == thread_num_validator(dmn.args.threads)
       IN dmn' = [dmn EXCEPT !.pc = IF r.ok THEN "start" ELSE "exited",
                             !.status = IF r.ok THEN "running" ELSE "usage",
                             !.thread_check = r]
    /\ UNCHANGED notDmn

\* Signals delivered to one run of the daemon.
MaxSignals == 2

\* main, lines 315-459: rlimit, mount command, daemon and HTTP thread.
DaemonStart ==
    /\ dmn.pc = "start"
    /\ \E set_ok \in BOOLEAN, create_ok \in BOOLEAN :
          LET r == Startup(dmn.env, dmn.args, set_ok, create_ok)
          IN dmn' = [dmn EXCEPT !.pc = IF r.ok THEN "set_evtfd" ELSE "exited",
                                !.status = IF r.ok THEN "running" ELSE "error",
                                !.rlimit_default = r.default,
                                !.set_calls = r.set_calls,
                                !.http_thread = r.ok /\ dmn.args.apisock]
    /\ UNCHANGED notDmn

\* *EXIT_EVTFD.lock().unwrap().deref_mut() = Some(exit_evtfd)
SetExitEvtfd ==
    /\ dmn.pc = "set_evtfd"
    /\ dmn' = [dmn EXCEPT !.pc = "register", !.exit_evtfd = Some(0)]
    /\ UNCHANGED notDmn

\* register_signal_handler(SIGINT, sig_exit); register_signal_handler(SIGTERM, sig_exit)
RegisterHandlers ==
    /\ dmn.pc = "register"
    /\ dmn' = [dmn EXCEPT !.pc = "loop", !.handlers = TRUE]
    /\ UNCHANGED notDmn

\* exit_event_manager: EXIT_EVTFD.lock().as_ref().unwrap().write(1)
exit_event_manager(d) ==
    IF ~d.exit_evtfd.some
    THEN [d EXCEPT !.pc = "exited", !.status = "panic"]
    ELSE [d EXCEPT !.exit_evtfd = Some(@.v + 1), !.evtfd_writes = @ + 1]

\* sig_exit: exit(0) when built for virtio-fs, the event-fd otherwise.
sig_exit_mut_exit(d) ==
    [d EXCEPT !.pc = "exited", !.status = "exit 0"]

sig_exit(d) ==
    IF d.args.virtiofs
    THEN [d EXCEPT !.pc = "exited", !.status = "exit 0"]
    ELSE exit_event_manager(d)

\* SIGINT or SIGTERM reaches the process: the default disposition ends it
\* until sig_exit is registered.
Signal ==
    /\ dmn.pc \notin {"idle", "exited", "returned", "killed"}
    /\ dmn.signals < MaxSignals
    /\ \E sig \in {"SIGINT", "SIGTERM"} :
          LET d == [dmn EXCEPT !.signals = @ + 1]
          IN dmn' = IF ~dmn.handlers
                    THEN [d EXCEPT !.pc = "killed", !.status = "killed"]
                    ELSE sig_exit([d EXCEPT !.handled = @ + 1,
                                            !.handled_at = dmn.pc])
    /\ UNCHANGED notDmn

\* event_manager.run() with the exit event-fd readable: the daemon's
\* subscriber clears EVENT_MANAGER_RUN.
EventManagerRun ==
    /\ dmn.pc = "loop" /\ dmn.run
    /\ dmn.exit_evtfd.some /\ dmn.exit_evtfd.v > 0
    /\ dmn' = [dmn EXCEPT !.run = FALSE, !.exit_evtfd = Some(0)]
    /\ UNCHANGED notDmn

\* `while EVENT_MANAGER_RUN.load(..)` finds the flag cleared.
LoopExit ==
    /\ dmn.pc = "loop" /\ ~dmn.run
    /\ dmn' = [dmn EXCEPT !.pc = IF dmn.http_thread THEN "join" ELSE "stop"]
    /\ UNCHANGED notDmn

\* http_exit_evtfd.write(1); t.join()
JoinHttp ==
    /\ dmn.pc = "join"
    /\ dmn' = [dmn EXCEPT !.pc = "stop",
                          !.log = @ \o <<"http_exit", "http_join">>]
    /\ UNCHANGED notDmn

\* daemon.stop()
DaemonStop ==
    /\ dmn.pc = "stop"
    /\ dmn' = [dmn EXCEPT !.pc = "wait", !.log = Append(@, "stop")]
    /\ UNCHANGED notDmn

\* daemon.wait(); Ok(())
DaemonWait ==
    /\ dmn.pc = "wait"
    /\ dmn' = [dmn EXCEPT !.pc = "returned", !.status = "ok",
                          !.log = Append(@, "wait")]
    /\ UNCHANGED notDmn

RECURSIVE DecOf(_)
DecOf(n) ==
    IF n < 10 THEN <<DecDigits[n + 1]>>
    ELSE DecOf(n \div 10) \o <<DecDigits[(n % 10) + 1]>>

FileMaxNumbers == {16384, 32767, 32768, 100000, 1016384, 1016385, 2000000}
RlimitNumbers == {0, 1024, 1000000, 2000000}

\* Contents of /proc/sys/fs/file-max explored (None: unreadable).
FileMaxContents ==
    {None, Some(<<"x", "\n">>)}
    \cup { Some(DecOf(n) \o <<"\n">>) :
             n \in FileMaxNumbers }

\* Results of Resource::NOFILE.get() explored: the current soft limit.
NofileLimits == {Err("io")} \cup { Ok(n) : n \in {1024, 16384, 83616, 1000000} }

RlimitArgs ==
    {None, Some(<<"a">>)}
    \cup { Some(DecOf(n)) : n \in RlimitNumbers }

\* --thread-num values explored.
ThreadNumbers == {0, 1, 1024, 1025}

ThreadArgs ==
    { DecOf(n) : n \in ThreadNumbers }
    \cup { <<"-", "1">>, <<"+", "8">>, <<"a">>, <<>>,
           <<"2", "1", "4", "7", "4", "8", "3", "6", "4", "8">> }

DaemonEnvs == [file_max : FileMaxContents, nofile : NofileLimits]

DaemonArgs ==
    [rlimit_nofile : RlimitArgs, shared_dir : BOOLEAN, apisock : BOOLEAN,
     virtiofs : BOOLEAN, threads : ThreadArgs]

InitDaemon ==
    /\ IoInit /\ TreeInit(LowerEmpty) /\ BootIdle /\ CliIdle /\ VqIdle /\ EvtIdle
    /\ \E env \in DaemonEnvs, args \in DaemonArgs :
          dmn = [pc |-> "parse", env |-> env, args |-> args,
                 status |-> "running", thread_check |-> NotCalled,
                 rlimit_default |-> NotCalled,
                 set_calls |-> <<>>, http_thread |-> FALSE,
                 exit_evtfd |-> None, handlers |-> FALSE, run |-> TRUE,
                 signals |-> 0, handled |-> 0, handled_at |-> "none",
                 evtfd_writes |-> 0, log |-> <<>>]

NextDaemon ==
    \/ ParseArgs \/ DaemonStart \/ SetExitEvtfd \/ RegisterHandlers \/ Signal
    \/ EventManagerRun \/ LoopExit \/ JoinHttp \/ DaemonStop \/ DaemonWait

SpecDaemon == InitDaemon /\ [][NextDaemon]_vars


\* ---------------------------------------------------------------------------
\* Properties of the daemon's startup and shutdown (checked under SpecDaemon)
\* ---------------------------------------------------------------------------

\* fs.file-max as a number, -1 when the sysctl cannot be read or parsed.
FileMaxOf(env) ==
    IF \E n \in FileMaxNumbers : env.file_max = Some(DecOf(n) \o <<"\n">>)
    THEN CHOOSE n \in FileMaxNumbers : env.file_max = Some(DecOf(n) \o <<"\n">>)
    ELSE -1

\* --rlimit-nofile as a number, -1 when absent or not a number.
RlimitArgOf(args) ==
    IF \E n \in RlimitNumbers : args.rlimit_nofile = Some(DecOf(n))
    THEN CHOOSE n \in RlimitNumbers : args.rlimit_nofile = Some(DecOf(n))
    ELSE -1

NofileBound(env) == Min(FileMaxOf(env) - 16384, 1000000)

\* main has got past the rlimit computation.
StartupDone == dmn.rlimit_default # NotCalled

DefaultTargetRule ==
    /\ FileMaxOf(dmn.env) < 2 * 16384 =>
          dmn.pc = "exited" /\ dmn.status = "error" /\ dmn.set_calls = <<>>
    /\ (FileMaxOf(dmn.env) >= 2 * 16384 /\ dmn.env.nofile.ok) =>
          dmn.rlimit_default =
             Ok(IF dmn.env.nofile.val >= NofileBound(dmn.env)
                THEN 0 ELSE NofileBound(dmn.env))

\* C19 as stated: whatever fs.file-max, the soft limit and --rlimit-nofile
\* are, no value passed to the rlimit setter exceeds
\* min(fs.file-max - 16384, 1_000_000); the default target is 0 when the
\* soft limit already reaches the bound; startup fails when
\* fs.file-max < 2 * 16384.
C19_RlimitCappedOriginal ==
    StartupDone =>
        /\ \A i \in DOMAIN dmn.set_calls : dmn.set_calls[i] <= NofileBound(dmn.env)
        /\ DefaultTargetRule

\* C19: the default target is capped by min(fs.file-max - 16384, 1_000_000)
\* and is what the setter gets when --rlimit-nofile is absent or not a
\* number; a numeric --rlimit-nofile is passed as given; the setter is
\* called at most once, only in shared-dir mode and never with 0; the
\* default is 0 when the soft limit reaches the bound; startup fails when
\* fs.file-max < 2 * 16384.
C19_RlimitCapped ==
    StartupDone =>
        /\ DefaultTargetRule
        /\ Len(dmn.set_calls) <= 1
        /\ \A i \in DOMAIN dmn.set_calls :
              /\ dmn.args.shared_dir /\ dmn.set_calls[i] # 0
              /\ IF RlimitArgOf(dmn.args) >= 0
                 THEN dmn.set_calls[i] = RlimitArgOf(dmn.args)
                 ELSE /\ dmn.set_calls[i] = NofileBound(dmn.env)
                      /\ dmn.env.nofile.val < NofileBound(dmn.env)
        /\ (dmn.rlimit_default.ok /\ dmn.args.shared_dir /\ dmn.set_calls = <<>>) =>
              IF RlimitArgOf(dmn.args) >= 0
              THEN RlimitArgOf(dmn.args) = 0
              ELSE dmn.env.nofile.val >= NofileBound(dmn.env)

\* --rlimit-nofile 2000000 with fs.file-max 100000: the setter gets 2000000.
C19_Witness ==
    /\ dmn.pc = "loop" /\ FileMaxOf(dmn.env) = 100000
    /\ RlimitArgOf(dmn.args) = 2000000
    /\ dmn.set_calls = <<2000000>>

ShutdownLog ==
    (IF dmn.http_thread THEN <<"http_exit", "http_join">> ELSE <<>>)
       \o <<"stop", "wait">>

\* C20: without the virtio-fs feature a SIGINT or SIGTERM handled by
\* sig_exit does not end the process, it only writes the exit event-fd,
\* which is set before the handlers are registered; after the event loop
\* has stopped main signals and joins the HTTP thread (if any), then calls
\* daemon.stop() and then daemon.wait() before it returns; with virtio-fs
\* the handler exits at once with status 0.
C20_SignalShutdown ==
    /\ dmn.handlers => dmn.exit_evtfd.some
    /\ dmn.status # "panic"
    /\ ~dmn.args.virtiofs =>
          /\ dmn.status # "exit 0"
          /\ dmn.evtfd_writes = dmn.handled
          /\ dmn.pc = "exited" => dmn.status \in {"usage", "error"} /\ dmn.handled = 0
    /\ IsPrefix(dmn.log, ShutdownLog)
    /\ dmn.log # <<>> => ~dmn.run
    /\ dmn.pc \in {"join", "stop", "wait", "returned"} => ~dmn.run /\ dmn.handled > 0
    /\ dmn.pc = "stop" => dmn.log = SubSeq(ShutdownLog, 1, Len(ShutdownLog) - 2)
    /\ dmn.pc = "returned" => dmn.log = ShutdownLog /\ dmn.status = "ok"
    /\ (dmn.args.virtiofs /\ dmn.handled > 0) =>
          /\ dmn.pc = "exited" /\ dmn.status = "exit 0"
          /\ dmn.handled = 1 /\ dmn.evtfd_writes = 0 /\ dmn.log = <<>>

\* A FUSE daemon with an HTTP thread, interrupted twice, has shut down.
C20_Witness ==
    /\ ~dmn.args.virtiofs /\ dmn.http_thread /\ dmn.pc = "returned"
    /\ dmn.handled = 2 /\ dmn.evtfd_writes = 2
    /\ dmn.log = <<"http_exit", "http_join", "stop", "wait">>


\* C23: the --thread-num validator accepts its argument exactly when it is
\* an integer t with 1 <= t <= 1024.
C23_ThreadNum ==
    dmn.thread_check # NotCalled =>
        (dmn.thread_check.ok <=>
            \E t \in 1..1024 :
               dmn.args.threads \in {DecOf(t), <<"+">> \o DecOf(t)})


\* ---------------------------------------------------------------------------
\* The vhost-user-fs backend (src/bin/nydusd/virtiofs.rs)
\* ---------------------------------------------------------------------------

NUM_QUEUES == 2
HIPRIO_QUEUE_EVENT == 0
REQ_QUEUE_EVENT == 1

\* Number of descriptor chains the guest makes available, over both queues.
MaxChains == 2

\* Results whose value is a boolean.
OkB(v) == [ok |-> TRUE, val |-> v, err |-> ""]
ErrB(e) == [ok |-> FALSE, val |-> FALSE, err |-> e]

\* VhostUserFsBackendHandler::new: no guest memory, EVENT_IDX off.
NewBackend == [mem |-> FALSE, event_idx |-> FALSE]

\* A vring as the backend sees it: the chains the guest has made available
\* so far, how many of them the device has taken (next_avail), the used
\* ring, whether the device asks for notifications, and whether a guest
\* notification is pending on the queue's kick event-fd.
NewVring == [avail |-> <<>>, next_avail |-> 0, used |-> <<>>,
             notify |-> TRUE, kick |-> FALSE]

\* What a descriptor chain turns out to be when the device handles it.
ChainKinds == {"ok", "invalid", "fail", "noused"}

\* What needs_notification answers for one chain.
Notifications == {"yes", "no", "err"}

\* Whether the used queue is signalled after a chain.
NeedSignal_mut_always(event_idx, needs_notification) == TRUE

NeedSignal(event_idx, needs_notification) ==
    IF event_idx
    THEN needs_notification \in {"err", "yes"}
    ELSE TRUE

Ev(op, head) == [op |-> op, head |-> head, len |-> 0]

\* The loop of process_queue over the collected chains.
RECURSIVE ProcessChains(_, _, _, _, _, _, _)
ProcessChains(chains, i, event_idx, nn, used_any, used, trace) ==
    IF i > Len(chains)
    THEN [res |-> OkB(used_any), used |-> used, trace |-> trace]
    ELSE
        LET chain == chains[i]
            head_index == chain.head
        IN
        IF chain.kind = "invalid"
        THEN [res |-> ErrB("InvalidDescriptorChain"), used |-> used, trace |-> trace]
        ELSE IF chain.kind = "fail"
        THEN [res |-> ErrB("ProcessQueue"), used |-> used,
              trace |-> Append(trace, Ev("message", head_index))]
        ELSE
            LET used1 == IF chain.kind = "noused"
                         THEN used
                         ELSE Append(used, [id |-> head_index, len |-> 0])
                trace1 == trace \o <<Ev("message", head_index)>>
                                \o (IF chain.kind = "noused"
                                    THEN <<>>
                                    ELSE <<Ev("used", head_index)>>)
                trace2 == IF NeedSignal(event_idx, nn[i])
                          THEN Append(trace1, Ev("signal", head_index))
                          ELSE trace1
            IN ProcessChains(chains, i + 1, event_idx, nn, TRUE, used1, trace2)

process_queue(backend, vring, iter_ok, nn) ==
    IF ~backend.mem
    THEN [res |-> ErrB("NoMemoryConfigured"), vring |-> vring, trace |-> <<>>]
    ELSE IF ~iter_ok
    THEN [res |-> ErrB("IterateQueue"), vring |-> vring, trace |-> <<>>]
    ELSE
        LET avail_chains == SubSeq(vring.avail, vring.next_avail + 1, Len(vring.avail))
            r == ProcessChains(avail_chains, 1, backend.event_idx, nn, FALSE,
                               vring.used, <<>>)
        IN [res |-> r.res,
            vring |-> [vring EXCEPT !.next_avail = Len(vring.avail), !.used = r.used],
            trace |-> r.trace]

set_event_idx(backend, _enabled) == [backend EXCEPT !.event_idx = TRUE]

update_memory(backend) == [backend EXCEPT !.mem = TRUE]

disable_notification(vring) == [vring EXCEPT !.notify = FALSE]

\* enable_notification: notifications on again, and whether buffers became
\* available that the device has not taken.
enable_notification(vring) ==
    [vring |-> [vring EXCEPT !.notify = TRUE],
     more |-> vring.next_avail # Len(vring.avail)]

\* Where handle_event goes after enable_notification.
AfterEnable_mut_break(more) == "return"

AfterEnable(more) == IF more THEN "disable" ELSE "return"

NoCall == [called |-> FALSE]

SetEventIdx(enabled) ==
    /\ vq.pc = "ready"
    /\ vq' = [vq EXCEPT !.backend = set_event_idx(vq.backend, enabled),
                        !.set = [called |-> TRUE, enabled |-> enabled]]
    /\ UNCHANGED notVq

UpdateMemory ==
    /\ vq.pc = "ready"
    /\ vq' = [vq EXCEPT !.backend = update_memory(vq.backend)]
    /\ UNCHANGED notVq

\* The guest driver makes one more chain available on queue q, and kicks
\* the queue when the device asks for notifications.
GuestAdd(q, kind) ==
    /\ vq.pc \notin {"idle", "failed"}
    /\ Len(vq.vrings[0].avail) + Len(vq.vrings[1].avail) < MaxChains
    /\ LET vring == vq.vrings[q]
           chain == [head |-> Len(vring.avail) + 1, kind |-> kind]
       IN vq' = [vq EXCEPT !.vrings[q] =
                    [vring EXCEPT !.avail = Append(vring.avail, chain),
                                  !.kick = vring.kick \/ vring.notify]]
    /\ UNCHANGED notVq

Return(res) ==
    [called |-> TRUE, ok |-> res.ok, val |-> res.val, err |-> res.err,
     q |-> vq.cur, event_idx |-> vq.backend.event_idx,
     calls |-> vq.calls, last_enable |-> vq.last_enable]

\* handle_event up to the choice between the two paths.  An Err from
\* handle_event ends the worker thread that called it, so no call follows one.
HandleEvent(device_event, evset) ==
    /\ vq.pc = "ready"
    /\ IF evset # "IN"
       THEN vq' = [vq EXCEPT !.pc = "failed", !.pq = NoCall,
                             !.ret = [Return(ErrB("HandleEventNotEpollIn")) EXCEPT
                                         !.q = 0, !.calls = 0, !.last_enable = 0]]
       ELSE IF device_event \notin {HIPRIO_QUEUE_EVENT, REQ_QUEUE_EVENT}
       THEN vq' = [vq EXCEPT !.pc = "failed", !.pq = NoCall,
                             !.ret = [Return(ErrB("HandleEventUnknownEvent")) EXCEPT
                                         !.q = 0, !.calls = 0, !.last_enable = 0]]
       ELSE vq' = [vq EXCEPT !.cur = device_event,
                             !.calls = 0,
                             !.last_enable = 0,
                             !.pq = NoCall,
                             !.ret = NoCall,
                             !.vrings[device_event].kick = FALSE,
                             !.pc = IF vq.backend.event_idx THEN "disable" ELSE "process"]
    /\ UNCHANGED notVq

DisableNotification ==
    /\ vq.pc = "disable"
    /\ vq' = [vq EXCEPT !.vrings[vq.cur] = disable_notification(vq.vrings[vq.cur]),
                        !.pc = "process"]
    /\ UNCHANGED notVq

ProcessQueue ==
    /\ vq.pc = "process"
    /\ LET vring == vq.vrings[vq.cur]
           n == Len(vring.avail) - vring.next_avail
       IN
       \E iter_ok \in BOOLEAN :
       \E nn \in IF vq.backend.event_idx /\ vq.backend.mem /\ iter_ok
                 THEN [1..n -> Notifications]
                 ELSE {[i \in 1..n |-> "no"]} :
          LET r == process_queue(vq.backend, vring, iter_ok, nn)
              calls == vq.calls + 1
              pq == [called |-> TRUE, q |-> vq.cur, mem |-> vq.backend.mem,
                     event_idx |-> vq.backend.event_idx, iter_ok |-> iter_ok,
                     nn |-> nn, pre_next |-> vring.next_avail,
                     pre_avail |-> Len(vring.avail), pre_used |-> Len(vring.used),
                     res |-> r.res, trace |-> r.trace]
              v1 == [vq EXCEPT !.vrings[vq.cur] = r.vring, !.pq = pq, !.calls = calls]
          IN
          IF ~r.res.ok
          THEN vq' = [v1 EXCEPT !.pc = "failed",
                                !.ret = [Return(r.res) EXCEPT !.calls = calls]]
          ELSE IF vq.backend.event_idx
          THEN vq' = [v1 EXCEPT !.pc = "enable"]
          ELSE vq' = [v1 EXCEPT !.pc = "ready",
                                !.ret = [Return(OkB(FALSE)) EXCEPT !.calls = calls]]
    /\ UNCHANGED notVq

EnableNotification ==
    /\ vq.pc = "enable"
    /\ LET e == enable_notification(vq.vrings[vq.cur])
           seen == Len(vq.vrings[vq.cur].avail)
           v1 == [vq EXCEPT !.vrings[vq.cur] = e.vring, !.last_enable = seen]
       IN
       IF AfterEnable(e.more) = "disable"
       THEN vq' = [v1 EXCEPT !.pc = "disable"]
       ELSE vq' = [v1 EXCEPT !.pc = "ready",
                             !.ret = [Return(OkB(FALSE)) EXCEPT !.last_enable = seen]]
    /\ UNCHANGED notVq

DeviceEvents == {HIPRIO_QUEUE_EVENT, REQ_QUEUE_EVENT, NUM_QUEUES}
EventSets == {"IN", "OUT"}

InitVirtio ==
    /\ IoInit /\ TreeInit(LowerEmpty) /\ BootIdle /\ CliIdle /\ DmnIdle /\ EvtIdle
    /\ vq = [pc |-> "ready", backend |-> NewBackend,
             vrings |-> [q \in 0..(NUM_QUEUES - 1) |-> NewVring],
             cur |-> 0, calls |-> 0, last_enable |-> 0,
             set |-> NoCall, pq |-> NoCall, ret |-> NoCall]

NextVirtio ==
    \/ \E enabled \in BOOLEAN : SetEventIdx(enabled)
    \/ UpdateMemory
    \/ \E q \in 0..(NUM_QUEUES - 1), kind \in ChainKinds : GuestAdd(q, kind)
    \/ \E device_event \in DeviceEvents, evset \in EventSets :
          HandleEvent(device_event, evset)
    \/ DisableNotification
    \/ ProcessQueue
    \/ EnableNotification

SpecVirtio == InitVirtio /\ [][NextVirtio]_vars

\* C30: after set_event_idx(enabled) the backend's event_idx flag equals
\* enabled, for both values of enabled.
C30_SetEventIdx ==
    vq.pc # "idle" => (vq.set.called => vq.backend.event_idx = vq.set.enabled)

\* The events process_queue is to produce for the chains it collected.
RECURSIVE ExpectedTrace(_, _, _, _)
ExpectedTrace(chains, i, event_idx, nn) ==
    IF i > Len(chains)
    THEN <<>>
    ELSE <<Ev("message", chains[i].head), Ev("used", chains[i].head)>>
         \o (IF ~event_idx \/ nn[i] # "no"
             THEN <<Ev("signal", chains[i].head)>>
             ELSE <<>>)
         \o ExpectedTrace(chains, i + 1, event_idx, nn)

\* The chains that were available when the last process_queue call began.
CollectedChains ==
    SubSeq(vq.vrings[vq.pq.q].avail, vq.pq.pre_next + 1, vq.pq.pre_avail)

NoChainFails ==
    /\ vq.pq.iter_ok
    /\ \A i \in 1..Len(CollectedChains) : CollectedChains[i].kind = "ok"

\* C25: when no chain fails, process_queue handles every chain that was
\* available at the call once, in available-ring order, adds each head to
\* the used ring once with length 0, signals the used queue after each chain
\* (with EVENT_IDX only when needs_notification is true or fails) and returns
\* true exactly when it processed a chain; without guest memory it fails
\* with NoMemoryConfigured and consumes nothing.
C25_ProcessQueue ==
    (vq.pc # "idle" /\ vq.pq.called) =>
        LET p == vq.pq
            now == vq.vrings[p.q]
            chains == CollectedChains
        IN
        /\ ~p.mem =>
              /\ p.res = ErrB("NoMemoryConfigured")
              /\ now.next_avail = p.pre_next
              /\ Len(now.used) = p.pre_used
              /\ p.trace = <<>>
        /\ (p.mem /\ NoChainFails) =>
              /\ p.res = OkB(chains # <<>>)
              /\ now.next_avail = p.pre_avail
              /\ SubSeq(now.used, p.pre_used + 1, Len(now.used)) =
                     [i \in 1..Len(chains) |-> [id |-> chains[i].head, len |-> 0]]
              /\ p.trace = ExpectedTrace(chains, 1, p.event_idx, p.nn)

\* With EVENT_IDX, two chains were processed in one call and only the
\* second one was followed by a signal.
C25_Witness ==
    /\ vq.pc # "idle" /\ vq.pq.called
    /\ vq.pq.mem /\ vq.pq.event_idx /\ NoChainFails
    /\ Len(CollectedChains) = 2
    /\ vq.pq.nn = <<"no", "err">>
    /\ vq.pq.res = OkB(TRUE)

\* C24: with EVENT_IDX, when handle_event returns Ok notifications are
\* enabled and every chain made available before the last
\* enable_notification has been taken, so a chain still waiting has a guest
\* notification pending; without EVENT_IDX process_queue runs once per
\* event; a successful handle_event returns false.
C24_HandleEvent ==
    (vq.pc = "ready" /\ vq.ret.called /\ vq.ret.ok) =>
        LET vring == vq.vrings[vq.ret.q] IN
        /\ vq.ret.val = FALSE
        /\ ~vq.ret.event_idx => vq.ret.calls = 1
        /\ vq.ret.event_idx =>
              /\ vring.notify
              /\ vq.ret.last_enable <= vring.next_avail
              /\ Len(vring.avail) > vring.next_avail => vring.kick

\* handle_event with EVENT_IDX went round its loop twice, because the guest
\* added a chain while the first pass was running, and returned Ok.
C24_Witness ==
    /\ vq.pc = "ready" /\ vq.ret.called /\ vq.ret.ok
    /\ vq.ret.event_idx /\ vq.ret.calls = 2
    /\ vq.vrings[vq.ret.q].next_avail = 2
    /\ ~vq.vrings[vq.ret.q].kick


\* ---------------------------------------------------------------------------
\* VirtiofsDaemon::on_event and the daemon's state machine
\* (src/bin/nydusd/virtiofs.rs)
\* ---------------------------------------------------------------------------

\* Number of on_event calls explored, over all threads.
MaxCalls == 3

\* The threads that hold the daemon: main and the API server's thread.
Callers == {"main", "api"}

DaemonStateMachineInput == {"Mount", "Start", "Exit", "Stop"}

\* The lifecycle: the next state for an event, or "" where the event is not
\* allowed.
Transition(state, event) ==
    CASE state = "Init" /\ event = "Mount" -> "Ready"
      [] state = "Init" /\ event = "Stop" -> "Stopped"
      [] state = "Ready" /\ event = "Start" -> "Running"
      [] state = "Ready" /\ event = "Stop" -> "Stopped"
      [] state = "Running" /\ event = "Exit" -> "Interrupted"
      [] state = "Running" /\ event = "Stop" -> "Ready"
      [] state = "Interrupted" /\ event = "Stop" -> "Stopped"
      [] OTHER -> ""

NoLock == "none"

\* A result on its way to a caller; `of` is the caller whose event it answers.
Result(ok, err, of) == [called |-> TRUE, ok |-> ok, err |-> err, of |-> of]

\* A thread enters on_event with an event.
OnEvent(t, event) ==
    /\ evt.at[t] = "idle"
    /\ evt.calls < MaxCalls
    /\ evt' = [evt EXCEPT !.at[t] = "lock_trigger",
                          !.arg[t] = event,
                          !.got[t] = NoCall,
                          !.calls = evt.calls + 1]
    /\ UNCHANGED notEvt

LockTrigger(t) ==
    /\ evt.at[t] = "lock_trigger"
    /\ evt.trigger_lock = NoLock
    /\ evt' = [evt EXCEPT !.at[t] = "send", !.trigger_lock = t]
    /\ UNCHANGED notEvt

\* send, the `?` after it, and the release of the trigger's guard at the end
\* of the statement.
Send(t) ==
    /\ evt.at[t] = "send"
    /\ IF evt.alive
       THEN evt' = [evt EXCEPT !.events_rx = Append(evt.events_rx,
                                                   [event |-> evt.arg[t], from |-> t]),
                               !.trigger_lock = NoLock,
                               !.at[t] = "lock_receiver"]
       ELSE evt' = [evt EXCEPT !.trigger_lock = NoLock,
                               !.got[t] = Result(FALSE, "Channel send", t),
                               !.at[t] = "idle"]
    /\ UNCHANGED notEvt

LockReceiver(t) ==
    /\ evt.at[t] = "lock_receiver"
    /\ evt.receiver_lock = NoLock
    /\ evt' = [evt EXCEPT !.at[t] = "recv", !.receiver_lock = t]
    /\ UNCHANGED notEvt

\* recv blocks while the channel is empty and its sender lives.
Recv(t) ==
    /\ evt.at[t] = "recv"
    /\ \/ /\ evt.results # <<>>
          /\ evt' = [evt EXCEPT !.got[t] = Head(evt.results),
                                !.results = Tail(evt.results),
                                !.receiver_lock = NoLock,
                                !.at[t] = "idle"]
       \/ /\ evt.results = <<>>
          /\ ~evt.alive
          /\ evt' = [evt EXCEPT !.got[t] = Result(FALSE, "Channel recv", t),
                                !.receiver_lock = NoLock,
                                !.at[t] = "idle"]
    /\ UNCHANGED notEvt

\* The state machine's thread takes the next event, makes the transition and
\* sends the result; it ends, dropping its ends of both channels, once the
\* daemon has stopped.
StateMachine ==
    /\ evt.pc # "idle"
    /\ evt.alive
    /\ evt.events_rx # <<>>
    /\ LET e == Head(evt.events_rx)
           next == Transition(evt.state, e.event)
           state == IF next = "" THEN evt.state ELSE next
           r == IF next = ""
                THEN Result(FALSE, "UnexpectedEvent", e.from)
                ELSE Result(TRUE, "", e.from)
       IN evt' = [evt EXCEPT !.events_rx = Tail(evt.events_rx),
                             !.results = Append(evt.results, r),
                             !.state = state,
                             !.alive = state # "Stopped"]
    /\ UNCHANGED notEvt

\* create_nydus_daemon: the two channels, the daemon and the state machine's
\* thread.
InitEvents ==
    /\ IoInit /\ TreeInit(LowerEmpty) /\ BootIdle /\ CliIdle /\ DmnIdle /\ VqIdle
    /\ evt = [pc |-> "run",
              at |-> [t \in Callers |-> "idle"],
              arg |-> [t \in Callers |-> "Mount"],
              got |-> [t \in Callers |-> NoCall],
              trigger_lock |-> NoLock, receiver_lock |-> NoLock,
              events_rx |-> <<>>, results |-> <<>>,
              state |-> "Init", alive |-> TRUE, calls |-> 0]

NextEvents ==
    \/ \E t \in Callers, event \in DaemonStateMachineInput : OnEvent(t, event)
    \/ \E t \in Callers : LockTrigger(t)
    \/ \E t \in Callers : Send(t)
    \/ \E t \in Callers : LockReceiver(t)
    \/ \E t \in Callers : Recv(t)
    \/ StateMachine

SpecEvents == InitEvents /\ [][NextEvents]_vars

\* C29: a thread returning from on_event holds the result the state machine
\* produced for the event that this thread sent, never the result of an
\* event sent by another thread.
C29_OnEventResult ==
    evt.pc # "idle" =>
        \A t \in Callers :
            (evt.at[t] = "idle" /\ evt.got[t].called) => evt.got[t].of = t

====
